---- MODULE Spec2Model ----
(***************************************************************************)
(* AI-Nihongo: the multi-provider orchestration core.                      *)
(*                                                                         *)
(*   ModelOrchestrator   src/ai_nihongo/services/model_orchestrator.py     *)
(*   LLMService          src/ai_nihongo/services/llm_service.py            *)
(*   TranslationService  src/ai_nihongo/services/translation_service.py    *)
(*                                                                         *)
(* Every public operation is one action.  The variables hold the objects'  *)
(* fields; `last`, `attempts`, `ts_attempts` and `response` are the        *)
(* observation of the operation that produced the current state: which     *)
(* operation ran with which arguments, which providers it called in which  *)
(* order, and what it handed back to its caller.                           *)
(***************************************************************************)
EXTENDS Integers, Sequences, FiniteSets, TLC

VARIABLES
    models,             \* ModelOrchestrator.models: the keys of the dict
    orch_initialized,   \* ModelOrchestrator.is_initialized
    task_preferences,   \* ModelOrchestrator.task_preferences
    ts_providers,       \* TranslationService.providers: the keys of the dict
    ts_initialized,     \* TranslationService.is_initialized
    last,               \* the operation that produced this state
    attempts,           \* generate calls on self.models made by it, in order
    ts_attempts,        \* provider translate calls made by it, in order
    ts_result,          \* the TranslationResult translate returned in it
    response,           \* what process_task returned to its caller
    agent_initialized,  \* AIAgent.is_initialized
    current_provider,   \* AIAgent.current_provider
    llm_instance,       \* AIAgent.llm_service: its provider instance
    jlpt_rag_available, \* JLPT_RAG_AVAILABLE of core/agent.py
    conversation_history, \* AIAgent.conversation_history
    reply,              \* what the agent's operation returned to its caller
    requests,           \* the process_message coroutines in flight on the agent
    stored,             \* the requests that stored a record, in the order of
                        \* their _store_conversation calls
    jlpt_rag_instance,  \* _jlpt_rag_instance of services/jlpt_rag_service.py
    rag_callers         \* the coroutines that called get_jlpt_rag

\* The fields of the agent, and the agent's part of the state
rag_vars == <<jlpt_rag_instance, rag_callers>>
agent_state == <<agent_initialized, current_provider, llm_instance,
                 jlpt_rag_available, conversation_history, requests, stored,
                 rag_vars>>
agent_vars == <<agent_state, reply>>

vars == <<models, orch_initialized, task_preferences,
          ts_providers, ts_initialized, last, attempts, ts_attempts,
          ts_result, response, agent_vars>>

-----------------------------------------------------------------------------
(* Sequences helpers *)

Range(s) == {s[i] : i \in 1..Len(s)}

NoDuplicates(s) == \A i, j \in 1..Len(s) : s[i] = s[j] => i = j

Count(s, x) == Cardinality({i \in 1..Len(s) : s[i] = x})

\* One call of a provider made by process_task or translate, with whether
\* it raised
Call(name, raised) == [name |-> name, raised |-> raised]

\* The names of the providers called, in call order
Names(calls) == [k \in 1..Len(calls) |-> calls[k].name]

-----------------------------------------------------------------------------
(* Python str, as the sequence of its characters.  A character is a string  *)
(* of length one; a character outside ASCII is written "uXXXX", its code    *)
(* point.                                                                  *)

UpperCase ==
    <<"A", "B", "C", "D", "E", "F", "G", "H", "I", "J", "K", "L", "M",
      "N", "O", "P", "Q", "R", "S", "T", "U", "V", "W", "X", "Y", "Z">>

LowerCase ==
    <<"a", "b", "c", "d", "e", "f", "g", "h", "i", "j", "k", "l", "m",
      "n", "o", "p", "q", "r", "s", "t", "u", "v", "w", "x", "y", "z">>

\* The ASCII characters that are not letters (str.isalpha is False)
NonAlpha ==
    {" ", "0", "1", "2", "3", "4", "5", "6", "7", "8", "9", ":", "?", "!",
     ".", ",", "'", "/", "(", ")", "[", "]", "-"}

\* The ASCII characters
Ascii == Range(UpperCase) \cup Range(LowerCase) \cup NonAlpha

\* str.isalpha of one character: letters, kana and kanji are alphabetic
IsAlpha(c) == c \notin NonAlpha

\* str.isspace of one character
IsSpace(c) == c = " "

\* str.lower of one character
LowerChar(c) ==
    IF c \in Range(UpperCase)
    THEN LowerCase[CHOOSE i \in 1..Len(UpperCase) : UpperCase[i] = c]
    ELSE c

\* str.lower
Lower(s) == [i \in 1..Len(s) |-> LowerChar(s[i])]

\* str.strip
Strip(s) ==
    LET keep == {i \in 1..Len(s) : ~IsSpace(s[i])} IN
    IF keep = {} THEN << >>
    ELSE LET first == CHOOSE i \in keep : \A j \in keep : i <= j
             final == CHOOSE i \in keep : \A j \in keep : j <= i
         IN  SubSeq(s, first, final)

\* s[i:] and s[:i] with Python's 0-based index i, 0 <= i
From(s, i) == SubSeq(s, i + 1, Len(s))
Upto(s, i) == SubSeq(s, 1, IF i < Len(s) THEN i ELSE Len(s))

\* str.startswith
StartsWith(s, prefix) ==
    Len(prefix) <= Len(s) /\ SubSeq(s, 1, Len(prefix)) = prefix

\* str.find: the 0-based index of the first occurrence of sub, or -1
Find(s, sub) ==
    LET at == {i \in 0..(Len(s) - Len(sub)) : SubSeq(s, i + 1, i + Len(sub)) = sub}
    IN  IF at = {} THEN -1 ELSE CHOOSE i \in at : \A j \in at : i <= j

\* sub in s
Contains(s, sub) == Find(s, sub) # -1

\* s.split(sep, 1)
SplitOnce(s, sep) ==
    LET at == Find(s, sep) IN
    IF at = -1 THEN <<s>> ELSE <<Upto(s, at), From(s, at + Len(sep))>>

\* s.split(): the maximal runs of non-space characters, in order
RECURSIVE SplitWords(_)
SplitWords(s) ==
    LET t == Strip(s) IN
    IF t = << >> THEN << >>
    ELSE LET spaces == {i \in 1..Len(t) : IsSpace(t[i])} IN
         IF spaces = {} THEN <<t>>
         ELSE LET cut == CHOOSE i \in spaces : \A j \in spaces : i <= j
              IN  <<SubSeq(t, 1, cut - 1)>> \o SplitWords(SubSeq(t, cut + 1, Len(t)))

\* " ".join(words)
RECURSIVE JoinWords(_)
JoinWords(words) ==
    IF words = << >> THEN << >>
    ELSE IF Len(words) = 1 THEN words[1]
    ELSE words[1] \o <<" ">> \o JoinWords(Tail(words))

-----------------------------------------------------------------------------
(* llm_service.py *)

\* class LLMProvider(Enum): the values
LLMProvider ==
    {"anthropic", "ollama", "huggingface", "gemini", "groq", "local", "simple"}

\* LLMService.initialize: the provider instance built for a provider name;
\* only ollama and anthropic have a backend of their own, every other name
\* (also one outside the enum) gets a SimpleProvider
ProviderInstance(provider) ==
    IF provider = "ollama" THEN "OllamaProvider"
    ELSE IF provider = "anthropic" THEN "AnthropicProvider"
    ELSE "SimpleProvider"

\* <Provider>.initialize: SimpleProvider.initialize only sets a flag;
\* OllamaProvider.initialize and AnthropicProvider.initialize re-raise
InitializeMayRaise(provider) == ProviderInstance(provider) # "SimpleProvider"

\* <Provider>.generate_response: SimpleProvider answers from fixed tables;
\* the Ollama and Anthropic providers re-raise every API error
GenerateMayRaise(provider) == ProviderInstance(provider) # "SimpleProvider"

-----------------------------------------------------------------------------
(* translation_service.py *)

\* class TranslationProvider(Enum): the values
TranslationProvider ==
    {"google", "deepl", "microsoft", "anthropic", "ollama", "simple"}

\* TranslationService.initialize: the providers whose initialize can raise
\* and are then left out of self.providers; simple is always registered
OptionalTranslationProviders == {"google", "anthropic", "ollama"}

\* TranslationService.__init__: self.provider_preferences, with the default
\* of provider_preferences.get(lang_pair, [SIMPLE]) in translate
ProviderPreferences(lang_pair) ==
    IF lang_pair \in {<<"ja", "en">>, <<"en", "ja">>, <<"auto", "en">>, <<"auto", "ja">>}
    THEN <<"google", "anthropic", "simple">>
    ELSE <<"simple">>

\* TranslationService.detect_language: japanese_chars, the kana counted
JapaneseChars ==
    {"u3042", "u3044", "u3046", "u3048", "u304a", "u304b", "u304d",
     "u304f", "u3051", "u3053", "u3055", "u3057", "u3059", "u305b",
     "u305d", "u305f", "u3061", "u3064", "u3066", "u3068", "u306a",
     "u306b", "u306c", "u306d", "u306e", "u306f", "u3072", "u3075",
     "u3078", "u307b", "u307e", "u307f", "u3080", "u3081", "u3082",
     "u3084", "u3086", "u3088", "u3089", "u308a", "u308b", "u308c",
     "u308d", "u308f", "u3092", "u3093", "u30a2", "u30a4", "u30a6",
     "u30a8", "u30aa", "u30ab", "u30ad", "u30af", "u30b1", "u30b3",
     "u30b5", "u30b7", "u30b9", "u30bb", "u30bd", "u30bf", "u30c1",
     "u30c4", "u30c6", "u30c8", "u30ca", "u30cb", "u30cc", "u30cd",
     "u30ce", "u30cf", "u30d2", "u30d5", "u30d8", "u30db", "u30de",
     "u30df", "u30e0", "u30e1", "u30e2", "u30e4", "u30e6", "u30e8",
     "u30e9", "u30ea", "u30eb", "u30ec", "u30ed", "u30ef", "u30f2",
     "u30f3", "u304c", "u304e", "u3050", "u3052", "u3054", "u3056",
     "u3058", "u305a", "u305c", "u305e", "u3060", "u3062", "u3065",
     "u3067", "u3069", "u3070", "u3073", "u3076", "u3079", "u307c",
     "u3071", "u3074", "u3077", "u307a", "u307d", "u30ac", "u30ae",
     "u30b0", "u30b2", "u30b4", "u30b6", "u30b8", "u30ba", "u30bc",
     "u30be", "u30c0", "u30c2", "u30c5", "u30c7", "u30c9", "u30d0",
     "u30d3", "u30d6", "u30d9", "u30dc", "u30d1", "u30d4", "u30d7",
     "u30da", "u30dd"}

\* SimpleTranslationProvider.__init__: self.translations[("ja", "en")]
TranslationsJaEn ==
    {<< <<"u3053","u3093","u306b","u3061","u306f">>, <<"H","e","l","l","o">> >>,
     << <<"u3053","u3093","u3070","u3093","u306f">>, <<"G","o","o","d"," ","e","v","e","n","i","n","g">> >>,
     << <<"u304a","u306f","u3088","u3046">>, <<"G","o","o","d"," ","m","o","r","n","i","n","g">> >>,
     << <<"u304a","u306f","u3088","u3046","u3054","u3056","u3044","u307e","u3059">>, <<"G","o","o","d"," ","m","o","r","n","i","n","g"," ","(","p","o","l","i","t","e",")">> >>,
     << <<"u3042","u308a","u304c","u3068","u3046">>, <<"T","h","a","n","k"," ","y","o","u">> >>,
     << <<"u3042","u308a","u304c","u3068","u3046","u3054","u3056","u3044","u307e","u3059">>, <<"T","h","a","n","k"," ","y","o","u"," ","v","e","r","y"," ","m","u","c","h">> >>,
     << <<"u3059","u307f","u307e","u305b","u3093">>, <<"E","x","c","u","s","e"," ","m","e"," ","/"," ","I","'","m"," ","s","o","r","r","y">> >>,
     << <<"u306f","u3044">>, <<"Y","e","s">> >>,
     << <<"u3044","u3044","u3048">>, <<"N","o">> >>,
     << <<"u3055","u3088","u3046","u306a","u3089">>, <<"G","o","o","d","b","y","e">> >>,
     << <<"u307e","u305f","u660e","u65e5">>, <<"S","e","e"," ","y","o","u"," ","t","o","m","o","r","r","o","w">> >>,
     << <<"u304a","u75b2","u308c","u69d8">>, <<"G","o","o","d"," ","w","o","r","k"," ","/"," ","T","h","a","n","k"," ","y","o","u"," ","f","o","r"," ","y","o","u","r"," ","h","a","r","d"," ","w","o","r","k">> >>,
     << <<"u79c1">>, <<"I"," ","/"," ","m","e">> >>,
     << <<"u3042","u306a","u305f">>, <<"Y","o","u">> >>,
     << <<"u5f7c">>, <<"H","e">> >>,
     << <<"u5f7c","u5973">>, <<"S","h","e">> >>,
     << <<"u5b66","u751f">>, <<"s","t","u","d","e","n","t">> >>,
     << <<"u5148","u751f">>, <<"t","e","a","c","h","e","r">> >>,
     << <<"u53cb","u9054">>, <<"f","r","i","e","n","d">> >>,
     << <<"u5bb6","u65cf">>, <<"f","a","m","i","l","y">> >>,
     << <<"u98df","u3079","u308b">>, <<"t","o"," ","e","a","t">> >>,
     << <<"u98f2","u3080">>, <<"t","o"," ","d","r","i","n","k">> >>,
     << <<"u884c","u304f">>, <<"t","o"," ","g","o">> >>,
     << <<"u6765","u308b">>, <<"t","o"," ","c","o","m","e">> >>,
     << <<"u898b","u308b">>, <<"t","o"," ","s","e","e","/","w","a","t","c","h">> >>,
     << <<"u8aad","u3080">>, <<"t","o"," ","r","e","a","d">> >>,
     << <<"u66f8","u304f">>, <<"t","o"," ","w","r","i","t","e">> >>,
     << <<"u8a71","u3059">>, <<"t","o"," ","s","p","e","a","k">> >>,
     << <<"u805e","u304f">>, <<"t","o"," ","l","i","s","t","e","n","/","h","e","a","r">> >>,
     << <<"u308f","u304b","u308b">>, <<"t","o"," ","u","n","d","e","r","s","t","a","n","d">> >>,
     << <<"u597d","u304d">>, <<"l","i","k","e">> >>,
     << <<"u5acc","u3044">>, <<"d","i","s","l","i","k","e">> >>,
     << <<"u5927","u304d","u3044">>, <<"b","i","g">> >>,
     << <<"u5c0f","u3055","u3044">>, <<"s","m","a","l","l">> >>,
     << <<"u65b0","u3057","u3044">>, <<"n","e","w">> >>,
     << <<"u53e4","u3044">>, <<"o","l","d">> >>,
     << <<"u7f8e","u3057","u3044">>, <<"b","e","a","u","t","i","f","u","l">> >>,
     << <<"u4eca","u65e5">>, <<"t","o","d","a","y">> >>,
     << <<"u6628","u65e5">>, <<"y","e","s","t","e","r","d","a","y">> >>,
     << <<"u660e","u65e5">>, <<"t","o","m","o","r","r","o","w">> >>,
     << <<"u671d">>, <<"m","o","r","n","i","n","g">> >>,
     << <<"u663c">>, <<"n","o","o","n","/","l","u","n","c","h">> >>,
     << <<"u591c">>, <<"n","i","g","h","t">> >>,
     << <<"u6642","u9593">>, <<"t","i","m","e">> >>,
     << <<"u304a","u91d1">>, <<"m","o","n","e","y">> >>,
     << <<"u4ed5","u4e8b">>, <<"w","o","r","k","/","j","o","b">> >>,
     << <<"u5b66","u6821">>, <<"s","c","h","o","o","l">> >>,
     << <<"u5bb6">>, <<"h","o","u","s","e","/","h","o","m","e">> >>,
     << <<"u99c5">>, <<"s","t","a","t","i","o","n">> >>,
     << <<"u75c5","u9662">>, <<"h","o","s","p","i","t","a","l">> >>,
     << <<"u30ec","u30b9","u30c8","u30e9","u30f3">>, <<"r","e","s","t","a","u","r","a","n","t">> >>,
     << <<"u30b3","u30f3","u30d3","u30cb">>, <<"c","o","n","v","e","n","i","e","n","c","e"," ","s","t","o","r","e">> >>,
     << <<"u6620","u753b">>, <<"m","o","v","i","e">> >>,
     << <<"u97f3","u697d">>, <<"m","u","s","i","c">> >>,
     << <<"u672c">>, <<"b","o","o","k">> >>,
     << <<"u8eca">>, <<"c","a","r">> >>,
     << <<"u96fb","u8eca">>, <<"t","r","a","i","n">> >>,
     << <<"u30d0","u30b9">>, <<"b","u","s">> >>,
     << <<"u98db","u884c","u6a5f">>, <<"a","i","r","p","l","a","n","e">> >>}

\* SimpleTranslationProvider.__init__: self.translations[("en", "ja")]
TranslationsEnJa ==
    {<< <<"h","e","l","l","o">>, <<"u3053","u3093","u306b","u3061","u306f">> >>,
     << <<"g","o","o","d"," ","m","o","r","n","i","n","g">>, <<"u304a","u306f","u3088","u3046","u3054","u3056","u3044","u307e","u3059">> >>,
     << <<"g","o","o","d"," ","e","v","e","n","i","n","g">>, <<"u3053","u3093","u3070","u3093","u306f">> >>,
     << <<"t","h","a","n","k"," ","y","o","u">>, <<"u3042","u308a","u304c","u3068","u3046","u3054","u3056","u3044","u307e","u3059">> >>,
     << <<"e","x","c","u","s","e"," ","m","e">>, <<"u3059","u307f","u307e","u305b","u3093">> >>,
     << <<"s","o","r","r","y">>, <<"u3059","u307f","u307e","u305b","u3093">> >>,
     << <<"y","e","s">>, <<"u306f","u3044">> >>,
     << <<"n","o">>, <<"u3044","u3044","u3048">> >>,
     << <<"g","o","o","d","b","y","e">>, <<"u3055","u3088","u3046","u306a","u3089">> >>,
     << <<"s","e","e"," ","y","o","u"," ","t","o","m","o","r","r","o","w">>, <<"u307e","u305f","u660e","u65e5">> >>,
     << <<"i">>, <<"u79c1">> >>,
     << <<"y","o","u">>, <<"u3042","u306a","u305f">> >>,
     << <<"h","e">>, <<"u5f7c">> >>,
     << <<"s","h","e">>, <<"u5f7c","u5973">> >>,
     << <<"s","t","u","d","e","n","t">>, <<"u5b66","u751f">> >>,
     << <<"t","e","a","c","h","e","r">>, <<"u5148","u751f">> >>,
     << <<"f","r","i","e","n","d">>, <<"u53cb","u9054">> >>,
     << <<"f","a","m","i","l","y">>, <<"u5bb6","u65cf">> >>,
     << <<"e","a","t">>, <<"u98df","u3079","u308b">> >>,
     << <<"d","r","i","n","k">>, <<"u98f2","u3080">> >>,
     << <<"g","o">>, <<"u884c","u304f">> >>,
     << <<"c","o","m","e">>, <<"u6765","u308b">> >>,
     << <<"s","e","e">>, <<"u898b","u308b">> >>,
     << <<"w","a","t","c","h">>, <<"u898b","u308b">> >>,
     << <<"r","e","a","d">>, <<"u8aad","u3080">> >>,
     << <<"w","r","i","t","e">>, <<"u66f8","u304f">> >>,
     << <<"s","p","e","a","k">>, <<"u8a71","u3059">> >>,
     << <<"l","i","s","t","e","n">>, <<"u805e","u304f">> >>,
     << <<"u","n","d","e","r","s","t","a","n","d">>, <<"u308f","u304b","u308b">> >>,
     << <<"l","i","k","e">>, <<"u597d","u304d">> >>,
     << <<"d","i","s","l","i","k","e">>, <<"u5acc","u3044">> >>,
     << <<"b","i","g">>, <<"u5927","u304d","u3044">> >>,
     << <<"s","m","a","l","l">>, <<"u5c0f","u3055","u3044">> >>,
     << <<"n","e","w">>, <<"u65b0","u3057","u3044">> >>,
     << <<"o","l","d">>, <<"u53e4","u3044">> >>,
     << <<"b","e","a","u","t","i","f","u","l">>, <<"u7f8e","u3057","u3044">> >>,
     << <<"t","o","d","a","y">>, <<"u4eca","u65e5">> >>,
     << <<"y","e","s","t","e","r","d","a","y">>, <<"u6628","u65e5">> >>,
     << <<"t","o","m","o","r","r","o","w">>, <<"u660e","u65e5">> >>,
     << <<"m","o","r","n","i","n","g">>, <<"u671d">> >>,
     << <<"n","o","o","n">>, <<"u663c">> >>,
     << <<"n","i","g","h","t">>, <<"u591c">> >>,
     << <<"t","i","m","e">>, <<"u6642","u9593">> >>,
     << <<"m","o","n","e","y">>, <<"u304a","u91d1">> >>,
     << <<"w","o","r","k">>, <<"u4ed5","u4e8b">> >>,
     << <<"j","o","b">>, <<"u4ed5","u4e8b">> >>,
     << <<"s","c","h","o","o","l">>, <<"u5b66","u6821">> >>,
     << <<"h","o","u","s","e">>, <<"u5bb6">> >>,
     << <<"h","o","m","e">>, <<"u5bb6">> >>,
     << <<"s","t","a","t","i","o","n">>, <<"u99c5">> >>,
     << <<"h","o","s","p","i","t","a","l">>, <<"u75c5","u9662">> >>,
     << <<"r","e","s","t","a","u","r","a","n","t">>, <<"u30ec","u30b9","u30c8","u30e9","u30f3">> >>,
     << <<"m","o","v","i","e">>, <<"u6620","u753b">> >>,
     << <<"m","u","s","i","c">>, <<"u97f3","u697d">> >>,
     << <<"b","o","o","k">>, <<"u672c">> >>,
     << <<"c","a","r">>, <<"u8eca">> >>,
     << <<"t","r","a","i","n">>, <<"u96fb","u8eca">> >>,
     << <<"b","u","s">>, <<"u30d0","u30b9">> >>,
     << <<"a","i","r","p","l","a","n","e">>, <<"u98db","u884c","u6a5f">> >>}

\* TranslationService.detect_language
DetectLanguage(text) ==
    LET japanese_count == Cardinality({i \in 1..Len(text) : text[i] \in JapaneseChars})
        total_chars == Cardinality({i \in 1..Len(text) : IsAlpha(text[i])})
    IN  IF total_chars = 0 THEN "unknown"
        \* japanese_count / total_chars > 0.3
        ELSE IF 10 * japanese_count > 3 * total_chars THEN "ja"
        ELSE "en"

\* self.translations.get((source_lang, target_lang), {})
TranslationDict(source_lang, target_lang) ==
    IF <<source_lang, target_lang>> = <<"ja", "en">> THEN TranslationsJaEn
    ELSE IF <<source_lang, target_lang>> = <<"en", "ja">> THEN TranslationsEnJa
    ELSE {}

\* key in translation_dict, translation_dict[key]
InDict(dict, key) == \E e \in dict : e[1] = key
DictGet(dict, key) == (CHOOSE e \in dict : e[1] = key)[2]

\* f"[Translation not available for '{text}']" and
\* f"[Translation failed for '{text}']": the text around {text}
NotAvailableOpen ==
    <<"[", "T", "r", "a", "n", "s", "l", "a", "t", "i", "o", "n", " ", "n",
      "o", "t", " ", "a", "v", "a", "i", "l", "a", "b", "l", "e", " ", "f",
      "o", "r", " ", "'">>

FailedOpen ==
    <<"[", "T", "r", "a", "n", "s", "l", "a", "t", "i", "o", "n", " ", "f",
      "a", "i", "l", "e", "d", " ", "f", "o", "r", " ", "'">>

MarkerClose == <<"'","]">>

\* No TranslationResult
NoResult == [provider |-> "", method |-> ""]

\* A TranslationResult; confidence in hundredths
Result(translated_text, source_lang, target_lang, confidence, provider, method, note) ==
    [translated_text |-> translated_text, source_language |-> source_lang,
     target_language |-> target_lang, confidence |-> confidence,
     provider |-> provider, method |-> method, note |-> note]

\* SimpleTranslationProvider.translate, the word-by-word branch: every word
\* found in the table is replaced, every other word is put in brackets
WordByWord(dict, words) ==
    [i \in 1..Len(words) |->
        IF InDict(dict, words[i]) THEN DictGet(dict, words[i])
        ELSE <<"[">> \o words[i] \o <<"]">>]

\* SimpleTranslate without the found_any test of the word-by-word branch:
\* a text of several words is always answered word by word
SimpleTranslateAlwaysByWord(text, source_lang, target_lang) ==
    LET translation_dict == TranslationDict(source_lang, target_lang)
        original_text == Strip(text)
        text_lower == Strip(Lower(text))
        words == SplitWords(text_lower)
    IN  IF (source_lang = "ja" \/ target_lang = "ja")
           /\ InDict(translation_dict, original_text)
        THEN Result(DictGet(translation_dict, original_text), source_lang,
                    target_lang, 90, "simple", "exact_match", FALSE)
        ELSE IF InDict(translation_dict, text_lower)
        THEN Result(DictGet(translation_dict, text_lower), source_lang,
                    target_lang, 90, "simple", "exact_match", FALSE)
        ELSE IF Len(words) > 1
        THEN Result(JoinWords(WordByWord(translation_dict, words)), source_lang,
                    target_lang, 60, "simple", "word_by_word", TRUE)
        ELSE Result(NotAvailableOpen \o text \o MarkerClose,
                    source_lang, target_lang, 0, "simple", "not_found", TRUE)

\* SimpleTranslate without the lookup of the lowercased text
SimpleTranslateCaseSensitive(text, source_lang, target_lang) ==
    LET translation_dict == TranslationDict(source_lang, target_lang)
        original_text == Strip(text)
    IN  IF (source_lang = "ja" \/ target_lang = "ja")
           /\ InDict(translation_dict, original_text)
        THEN Result(DictGet(translation_dict, original_text), source_lang,
                    target_lang, 90, "simple", "exact_match", FALSE)
        ELSE Result(NotAvailableOpen \o text \o MarkerClose,
                    source_lang, target_lang, 0, "simple", "not_found", TRUE)

\* SimpleTranslationProvider.translate
SimpleTranslate(text, source_lang, target_lang) ==
    LET translation_dict == TranslationDict(source_lang, target_lang)
        original_text == Strip(text)
        text_lower == Strip(Lower(text))
        words == SplitWords(text_lower)
    IN  IF (source_lang = "ja" \/ target_lang = "ja")
           /\ InDict(translation_dict, original_text)
        THEN Result(DictGet(translation_dict, original_text), source_lang,
                    target_lang, 90, "simple", "exact_match", FALSE)
        ELSE IF InDict(translation_dict, text_lower)
        THEN Result(DictGet(translation_dict, text_lower), source_lang,
                    target_lang, 90, "simple", "exact_match", FALSE)
        ELSE IF Len(words) > 1 /\ \E i \in 1..Len(words) : InDict(translation_dict, words[i])
        THEN Result(JoinWords(WordByWord(translation_dict, words)), source_lang,
                    target_lang, 60, "simple", "word_by_word", TRUE)
        ELSE Result(NotAvailableOpen \o text \o MarkerClose,
                    source_lang, target_lang, 0, "simple", "not_found", TRUE)

\* GoogleTranslateProvider.translate and LLMTranslationProvider.translate
\* when they return: the text comes from the remote service and is kept as
\* one opaque token naming the service
RemoteTranslate(provider, text, source_lang, target_lang) ==
    IF provider = "google"
    THEN Result(<<"<google translation>">>, source_lang, target_lang, 90,
                "google", "api", FALSE)
    ELSE Result(<<"<llm translation>">>, source_lang, target_lang, 85,
                "llm_" \o provider, "llm_generation", FALSE)

\* self.providers[p].translate(text, source, target, context) when it returns
ProviderTranslate(provider, text, source_lang, target_lang) ==
    IF provider = "simple" THEN SimpleTranslate(text, source_lang, target_lang)
    ELSE RemoteTranslate(provider, text, source_lang, target_lang)

\* TranslateMayRaise with a dictionary provider that can raise as well
TranslateMayRaiseAll(provider) == TRUE

\* <Provider>.translate: the dictionary provider has no raising path, the
\* Google and LLM providers re-raise every error of their service
TranslateMayRaise(provider) == provider # "simple"

\* TranslationService.translate line 525: every provider failed
TranslationFailed(text, source_lang, target_lang) ==
    Result(FailedOpen \o text \o MarkerClose,
           source_lang, target_lang, 0, "none", "error", FALSE)

\* The loop of TranslationService.translate (lines 514-522) from position i
\* of preferred_providers on; ok[i] tells whether the translate call made
\* for position i returns or raises; tried holds the calls made so far
RECURSIVE TryProviders(_, _, _, _, _, _, _, _)
TryProviders(preferred_providers, registered, ok, text, source_lang, target_lang, i, tried) ==
    IF i > Len(preferred_providers)
    THEN [attempts |-> tried,
          result |-> TranslationFailed(text, source_lang, target_lang)]
    ELSE LET pref_provider == preferred_providers[i] IN
         IF pref_provider \notin registered
         THEN TryProviders(preferred_providers, registered, ok, text,
                           source_lang, target_lang, i + 1, tried)
         ELSE IF ok[i]
         THEN [attempts |-> Append(tried, Call(pref_provider, FALSE)),
               result |-> ProviderTranslate(pref_provider, text, source_lang, target_lang)]
         ELSE TryProviders(preferred_providers, registered, ok, text,
                           source_lang, target_lang, i + 1,
                           Append(tried, Call(pref_provider, TRUE)))

\* UseRequestedProvider without the test `provider in self.providers`
UseRequestedProviderUnchecked(provider, registered) == provider # "None"

\* TranslationService.translate line 502: a provider was requested and is
\* registered.  "None" stands for provider=None.
UseRequestedProvider(provider, registered) ==
    provider # "None" /\ provider \in registered

\* TranslateWith without the return of line 504: the preference list is
\* walked after the requested provider has answered
TranslateWithNoReturn(text, target_lang, source_lang, provider, registered, requested_ok, ok) ==
    LET actual_source_lang ==
            IF source_lang = "auto" THEN DetectLanguage(text) ELSE source_lang
        preferred_providers == ProviderPreferences(<<actual_source_lang, target_lang>>)
    IN  TryProviders(preferred_providers, registered, ok, text,
                     actual_source_lang, target_lang, 1,
                     IF provider # "None" /\ provider \in registered
                     THEN <<Call(provider, ~requested_ok)>> ELSE << >>)

\* TranslateWith with a second call of the requested provider before the
\* preference list is walked
TranslateWithRetry(text, target_lang, source_lang, provider, registered, requested_ok, ok) ==
    LET actual_source_lang ==
            IF source_lang = "auto" THEN DetectLanguage(text) ELSE source_lang
        preferred_providers == ProviderPreferences(<<actual_source_lang, target_lang>>)
    IN  IF provider # "None" /\ provider \in registered /\ requested_ok
        THEN [attempts |-> <<Call(provider, FALSE)>>,
              result |-> ProviderTranslate(provider, text, actual_source_lang, target_lang)]
        ELSE TryProviders(preferred_providers, registered, ok, text,
                          actual_source_lang, target_lang, 1,
                          IF provider # "None" /\ provider \in registered
                          THEN <<Call(provider, TRUE), Call(provider, TRUE)>>
                          ELSE << >>)

\* TranslationService.translate lines 495-533 on an initialized service.
\* requested_ok tells whether the requested provider's translate returns,
\* ok[i] the same for position i of the pair's preference list.
TranslateWith(text, target_lang, source_lang, provider, registered, requested_ok, ok) ==
    LET actual_source_lang ==
            IF source_lang = "auto" THEN DetectLanguage(text) ELSE source_lang
        preferred_providers == ProviderPreferences(<<actual_source_lang, target_lang>>)
    IN  IF UseRequestedProvider(provider, registered) /\ requested_ok
        THEN [attempts |-> <<Call(provider, FALSE)>>,
              result |-> ProviderTranslate(provider, text, actual_source_lang, target_lang)]
        ELSE TryProviders(preferred_providers, registered, ok, text,
                          actual_source_lang, target_lang, 1,
                          IF UseRequestedProvider(provider, registered)
                          THEN <<Call(provider, TRUE)>> ELSE << >>)

\* The outcomes the translate calls of one TranslationService.translate can
\* have: requested_ok for the requested provider, ok[i] for list position i
TranslateOutcomes(preferred_providers) ==
    {ok \in [1..Len(preferred_providers) -> BOOLEAN] :
        \A i \in 1..Len(preferred_providers) :
            ~TranslateMayRaise(preferred_providers[i]) => ok[i]}

-----------------------------------------------------------------------------
(* model_orchestrator.py *)

\* class TaskType(Enum): member -> value
TaskValue ==
    [CHAT |-> "chat", TRANSLATION |-> "translation",
     GRAMMAR_ANALYSIS |-> "grammar", TEXT_ANALYSIS |-> "analysis",
     QUICK_RESPONSE |-> "quick", CREATIVE_WRITING |-> "creative"]

TaskType == DOMAIN TaskValue

\* ModelOrchestrator.setup_default_preferences
DefaultPreferences ==
    [CHAT |-> <<"ollama", "groq", "anthropic", "simple">>,
     TRANSLATION |-> <<"anthropic", "gemini", "ollama", "groq", "simple">>,
     GRAMMAR_ANALYSIS |-> <<"anthropic", "gemini", "ollama", "simple">>,
     TEXT_ANALYSIS |-> <<"local", "ollama", "simple">>,
     QUICK_RESPONSE |-> <<"groq", "simple", "local">>,
     CREATIVE_WRITING |-> <<"ollama", "anthropic", "gemini", "groq", "simple">>]

\* What the probes of _get_available_providers can find: the Ollama server
\* answering, the transformers package, and the three API keys
Environment ==
    [ollama : BOOLEAN, transformers : BOOLEAN, gemini : BOOLEAN,
     groq : BOOLEAN, anthropic : BOOLEAN]

\* GetAvailableProviders with an empty list to start from
GetAvailableProvidersNoSimple(env) ==
    (IF env.ollama THEN <<"ollama">> ELSE << >>)
    \o (IF env.transformers THEN <<"huggingface", "local">> ELSE << >>)
    \o (IF env.gemini THEN <<"gemini">> ELSE << >>)
    \o (IF env.groq THEN <<"groq">> ELSE << >>)
    \o (IF env.anthropic THEN <<"anthropic">> ELSE << >>)

\* ModelOrchestrator._get_available_providers
GetAvailableProviders(env) ==
    <<"simple">>
    \o (IF env.ollama THEN <<"ollama">> ELSE << >>)
    \o (IF env.transformers THEN <<"huggingface", "local">> ELSE << >>)
    \o (IF env.gemini THEN <<"gemini">> ELSE << >>)
    \o (IF env.groq THEN <<"groq">> ELSE << >>)
    \o (IF env.anthropic THEN <<"anthropic">> ELSE << >>)

\* The loop of ModelOrchestrator.initialize: every available provider whose
\* LLMService.initialize does not raise is entered into self.models
InitializedProviders(available, raising) ==
    {available[i] : i \in {j \in 1..Len(available) : available[j] \notin raising}}


\* The caller-visible results of process_task.  `kind` tells the three
\* return statements of process_task and _handle_translation_task apart,
\* `by` is the provider whose output is returned, `text` the fixed part of
\* the returned string, `body` the text placed in it.
NoResponse == [kind |-> "none", by |-> "", text |-> "", body |-> << >>]

\* process_task line 124: the response of model_name's generate_response
Generated(model_name) ==
    [kind |-> "generated", by |-> model_name, text |-> "", body |-> << >>]

\* NoModelsAvailable with task_type.name in the place of task_type.value
NoModelsAvailableByName(task_type) ==
    [kind |-> "no_models", by |-> "", body |-> << >>,
     text |-> "Sorry, no models available for " \o task_type \o " task."]

\* process_task line 133
NoModelsAvailable(task_type) ==
    [kind |-> "no_models", by |-> "", body |-> << >>,
     text |-> "Sorry, no models available for " \o TaskValue[task_type] \o " task."]

\* IsActive with the membership test left out
IsActiveAlways(model_name, active) == TRUE

\* process_task line 113: `model_name not in self.models` is False
IsActive(model_name, active) == model_name \in active

\* Propagates with the raise made unconditional
PropagatesAlways(fallback) == TRUE

\* Propagates with the raise left out
PropagatesNever(fallback) == FALSE

\* process_task lines 128-129: `if not fallback: raise`
Propagates(fallback) == ~fallback

\* The loop of process_task (lines 112-130) from position i of
\* preferred_models on; ok[i] tells whether the generate_response call made
\* for position i returns (TRUE) or raises (FALSE); tried holds the calls
\* made so far.  The result is the calls made, how process_task ends and
\* what it returns.
RECURSIVE TryModels(_, _, _, _, _, _, _)
TryModels(task_type, preferred_models, active, ok, fallback, i, tried) ==
    IF i > Len(preferred_models)
    THEN [attempts |-> tried, outcome |-> "returned",
          response |-> NoModelsAvailable(task_type)]
    ELSE LET model_name == preferred_models[i] IN
         IF ~IsActive(model_name, active)
         THEN TryModels(task_type, preferred_models, active, ok, fallback,
                        i + 1, tried)
         ELSE IF ok[i]
         THEN [attempts |-> Append(tried, Call(model_name, FALSE)),
               outcome |-> "returned", response |-> Generated(model_name)]
         ELSE IF Propagates(fallback)
         THEN [attempts |-> Append(tried, Call(model_name, TRUE)),
               outcome |-> "raised", response |-> NoResponse]
         ELSE TryModels(task_type, preferred_models, active, ok, fallback,
                        i + 1, Append(tried, Call(model_name, TRUE)))

\* The outcomes the generate_response calls of one walk can have: a call on
\* a provider backed by SimpleProvider always returns
GenerateOutcomes(preferred_models) ==
    {ok \in [1..Len(preferred_models) -> BOOLEAN] :
        \A i \in 1..Len(preferred_models) :
            ~GenerateMayRaise(preferred_models[i]) => ok[i]}

\* The literals of _handle_translation_task
StrTranslateToJapanese == <<"t", "r", "a", "n", "s", "l", "a", "t", "e", " ", "t", "o", " ", "j",
      "a", "p", "a", "n", "e", "s", "e">>
StrInJapanese == <<"i", "n", " ", "j", "a", "p", "a", "n", "e", "s", "e">>
StrTranslate == <<"t", "r", "a", "n", "s", "l", "a", "t", "e">>
StrWhatDoes == <<"w", "h", "a", "t", " ", "d", "o", "e", "s">>
StrMean == <<"m", "e", "a", "n">>
StrToJapaneseColon == <<"t", "o", " ", "j", "a", "p", "a", "n", "e", "s", "e", ":">>
StrToEnglishColon == <<"t", "o", " ", "e", "n", "g", "l", "i", "s", "h", ":">>
StrColon == <<":">>

\* f"to {target_lang}:"
ToTargetColon(target_lang) ==
    IF target_lang = "ja" THEN <<"t", "o", " ", "j", "a", ":">>
    ELSE <<"t", "o", " ", "e", "n", ":">>

\* _handle_translation_task lines 260-267: the target language
TargetLang(content) ==
    LET content_lower == Lower(content) IN
    IF Contains(content_lower, StrTranslateToJapanese) \/ Contains(content_lower, StrInJapanese)
    THEN "ja" ELSE "en"

\* _handle_translation_task lines 276-279: the first prefix of the list that
\* text_part starts with is removed
RemovePrefix(text_part, target_lang) ==
    LET prefixes == <<ToTargetColon(target_lang), StrToJapaneseColon, StrToEnglishColon, StrColon>>
        hits == {k \in 1..Len(prefixes) : StartsWith(Lower(text_part), prefixes[k])}
    IN  IF hits = {} THEN text_part
        ELSE LET k == CHOOSE h \in hits : \A g \in hits : h <= g
             IN  Strip(From(text_part, Len(prefixes[k])))

\* _handle_translation_task lines 261-287: the text to translate
TextToTranslate(content) ==
    LET content_lower == Lower(content) IN
    IF Contains(content_lower, StrTranslate)
    THEN LET parts == SplitOnce(content, StrTranslate) IN
         IF Len(parts) > 1
         THEN LET text_part == RemovePrefix(Strip(parts[2]), TargetLang(content))
              IN  IF text_part # << >> THEN text_part ELSE content
         ELSE content
    ELSE IF Contains(content_lower, StrWhatDoes) /\ Contains(content_lower, StrMean)
    THEN LET start == Find(content_lower, StrWhatDoes) + Len(StrWhatDoes)
             end == Find(content_lower, StrMean)
         IN  IF start < end THEN Strip(SubSeq(content, start + 1, end)) ELSE content
    ELSE content

\* _handle_translation_task lines 289-293: the source language; the
\* argument tells whether context carries a japanese_analysis
SourceLang(japanese_analysis) == IF japanese_analysis THEN "ja" ELSE "auto"

\* _handle_translation_task lines 304-312: the string returned for a
\* translation result
FormatTranslation(result, text_to_translate) ==
    IF result.confidence > 50
    THEN [kind |-> "translation", by |-> result.provider,
          text |-> "Translation: ", body |-> result.translated_text]
    ELSE [kind |-> "could_not_translate", by |-> result.provider,
          text |-> "I couldn't translate ", body |-> text_to_translate]

-----------------------------------------------------------------------------
(* Inputs *)

\* "hello", U+3053 U+3093 U+306B U+3061 U+306F (konnichiwa), "xyz"
TextHello == <<"h", "e", "l", "l", "o">>
TextKonnichiwa == <<"u3053", "u3093", "u306b", "u3061", "u306f">>
TextXyz == <<"x", "y", "z">>

\* The texts handed to TranslationService.translate by a direct caller
Texts == {TextHello, TextKonnichiwa, TextXyz}

\* The contents of translation tasks:
\*   "Translate to ja: hello"          as AIAgent.translate_text builds it
\*   "translate to english: <konnichiwa>"
\*   "what does <konnichiwa> mean"
ContentAgentJa == <<"T", "r", "a", "n", "s", "l", "a", "t", "e", " ", "t", "o", " ", "j",
      "a", ":", " ", "h", "e", "l", "l", "o">>
ContentToEnglish ==
    <<"t", "r", "a", "n", "s", "l", "a", "t", "e", " ", "t", "o", " ", "e",
      "n", "g", "l", "i", "s", "h", ":", " ", "u3053", "u3093", "u306b",
      "u3061", "u306f">>
ContentWhatDoes ==
    <<"w", "h", "a", "t", " ", "d", "o", "e", "s", " ", "u3053", "u3093",
      "u306b", "u3061", "u306f", " ", "m", "e", "a", "n">>

Contents == {ContentAgentJa, ContentToEnglish, ContentWhatDoes}

\* The calls of set_task_preference, as <<task_type, models>>: a chain of
\* two providers behind a name no provider has; only names that no provider
\* has or that are active in some environments only; a chain without the
\* fallback responder that names a provider twice; and a new entry for
\* translation
PreferenceUpdates ==
    {<<"GRAMMAR_ANALYSIS", <<"gpt-4", "ollama", "simple">> >>,
     <<"QUICK_RESPONSE", <<"mistral", "huggingface">> >>,
     <<"CREATIVE_WRITING", <<"ollama", "anthropic", "ollama">> >>,
     <<"TRANSLATION", <<"ollama">> >>}

-----------------------------------------------------------------------------
(* State machine *)

\* No call is being observed: the last call's result was taken by its
\* caller, or the last operation returns nothing (initialize,
\* set_task_preference)
Idle == [op |-> "idle"]

\* AIAgent.process_message and AIAgent.translate_text have returned nothing
NoReply == [kind |-> "none"]

\* LLMService.__init__: no provider instance, not initialized
NoInstance == [instance |-> "None", initialized |-> FALSE, ready |-> FALSE]

\* AIAgent.__init__
\* The number of coroutines that call get_jlpt_rag concurrently
NCallers == 4
Callers == 1..NCallers

\* `_jlpt_rag_instance = None`: no instance was constructed (made counts
\* the JLPTVocabularyRAG() calls); no coroutine has called get_jlpt_rag
NoRagInstance == [state |-> "None", made |-> 0]
NoCallers == [c \in Callers |-> [outcome |-> "none", instance |-> "None"]]

\* The number of process_message requests made concurrently on one agent
NRequests == 3
Requests == 1..NRequests

\* No request has been made
NoRequests == [r \in Requests |-> [pc |-> "none", user_id |-> "None"]]

InitAgent ==
    /\ agent_initialized = FALSE
    /\ current_provider = "simple"
    /\ llm_instance = NoInstance
    /\ conversation_history = << >>
    /\ reply = NoReply
    /\ requests = NoRequests
    /\ stored = << >>
    /\ jlpt_rag_instance = NoRagInstance
    /\ rag_callers = NoCallers

\* ModelOrchestrator.__init__ and TranslationService.__init__
InitOrchestrator ==
    /\ models = {}
    /\ orch_initialized = FALSE
    /\ task_preferences = DefaultPreferences
    /\ ts_providers = {}
    /\ ts_initialized = FALSE
    /\ last = Idle
    /\ attempts = << >>
    /\ ts_attempts = << >>
    /\ ts_result = NoResult
    /\ response = NoResponse

\* The state after construction, in a process whose import of the JLPT
\* retrieval service failed
Init ==
    /\ InitOrchestrator
    /\ InitAgent
    /\ jlpt_rag_available = FALSE

\* TranslationService.initialize: returns at once when already initialized;
\* else registers simple and every optional provider in `registering`,
\* those whose initialize does not raise
TSInitialized(registering) ==
    IF ts_initialized THEN ts_providers ELSE {"simple"} \cup registering

\* ModelOrchestrator.initialize lines 78-83: an empty self.models gets the
\* simple responder
EnsureSimple(initialized) ==
    IF initialized = {} THEN {"simple"} ELSE initialized

\* ModelOrchestrator.initialize: self.models after the call, in environment
\* env with LLMService.initialize raising for the providers in `raising`
ModelsAfterInitialize(env, raising) ==
    EnsureSimple(models \cup InitializedProviders(GetAvailableProviders(env), raising))

\* ModelOrchestrator.initialize
Initialize(env, raising, registering) ==
    /\ last = Idle
    /\ ts_providers' = TSInitialized(registering)
    /\ ts_initialized' = TRUE
    /\ models' = ModelsAfterInitialize(env, raising)
    /\ orch_initialized' = TRUE
    /\ last' = Idle
    /\ attempts' = << >>
    /\ ts_attempts' = << >>
    /\ ts_result' = NoResult
    /\ response' = NoResponse
    /\ UNCHANGED agent_vars
    /\ UNCHANGED task_preferences

\* ModelOrchestrator.set_task_preference
SetTaskPreference(task_type, preferred) ==
    /\ last = Idle
    /\ task_preferences' = [task_preferences EXCEPT ![task_type] = preferred]
    /\ last' = Idle
    /\ attempts' = << >>
    /\ ts_attempts' = << >>
    /\ ts_result' = NoResult
    /\ response' = NoResponse
    /\ UNCHANGED agent_vars
    /\ UNCHANGED <<models, orch_initialized, ts_providers, ts_initialized>>

\* PreferredModels with the list walked from its end
PreferredModelsReversed(task_type) ==
    [i \in 1..Len(task_preferences[task_type]) |->
        task_preferences[task_type][Len(task_preferences[task_type]) + 1 - i]]

\* process_task line 110: self.task_preferences.get(task_type, ["simple"]);
\* the table has an entry for every task type
PreferredModels(task_type) == task_preferences[task_type]

\* ModelOrchestrator.process_task, lines 110-133: a task that is not a
\* translation
ProcessGenericTask(task_type, fallback) ==
    /\ last = Idle
    /\ task_type # "TRANSLATION"
    /\ \E ok \in GenerateOutcomes(PreferredModels(task_type)) :
         LET walk == TryModels(task_type, PreferredModels(task_type), models,
                               ok, fallback, 1, << >>)
         IN  /\ attempts' = walk.attempts
             /\ response' = walk.response
             /\ last' = [op |-> "process_task", task |-> task_type,
                         fallback |-> fallback, outcome |-> walk.outcome]
    /\ ts_attempts' = << >>
    /\ ts_result' = NoResult
    /\ UNCHANGED agent_vars
    /\ UNCHANGED <<models, orch_initialized, task_preferences,
                   ts_providers, ts_initialized>>

\* The choices TranslationService.initialize has: none when the service is
\* initialized already
Registering ==
    IF ts_initialized THEN {{}} ELSE SUBSET OptionalTranslationProviders

\* _handle_translation_task lines 257-293: the arguments of the translate
\* call made for each content of Contents (evaluated once)
TranslationRequest ==
    [content \in Contents |->
        [text |-> TextToTranslate(content), target_lang |-> TargetLang(content)]]

\* ProcessTranslationTask without the special case of lines 107-108: the
\* translation task walks the preference list like every other task
ProcessTranslationTaskByChain(content, japanese_analysis, fallback, registering) ==
    /\ last = Idle
    /\ \E ok \in GenerateOutcomes(PreferredModels("TRANSLATION")) :
         LET walk == TryModels("TRANSLATION", PreferredModels("TRANSLATION"),
                               models, ok, fallback, 1, << >>)
         IN  /\ attempts' = walk.attempts
             /\ response' = walk.response
             /\ last' = [op |-> "process_task", task |-> "TRANSLATION",
                         fallback |-> fallback, content |-> content,
                         japanese_analysis |-> japanese_analysis,
                         outcome |-> walk.outcome]
    /\ ts_attempts' = << >>
    /\ ts_result' = NoResult
    /\ UNCHANGED agent_vars
    /\ UNCHANGED <<models, orch_initialized, task_preferences,
                   ts_providers, ts_initialized>>

\* ModelOrchestrator.process_task, lines 107-108, with
\* _handle_translation_task: a translation task.  translate initializes the
\* translation service when that has not happened yet.
ProcessTranslationTask(content, japanese_analysis, fallback, registering) ==
    /\ last = Idle
    /\ ts_providers' = TSInitialized(registering)
    /\ ts_initialized' = TRUE
    /\ LET request == TranslationRequest[content]
           source_lang == SourceLang(japanese_analysis)
           actual == IF source_lang = "auto" THEN DetectLanguage(request.text)
                     ELSE source_lang
       IN  \E ok \in TranslateOutcomes(ProviderPreferences(<<actual, request.target_lang>>)) :
             LET done == TranslateWith(request.text, request.target_lang, source_lang,
                                       "None", TSInitialized(registering), TRUE, ok)
             IN  /\ ts_attempts' = done.attempts
                 /\ ts_result' = done.result
                 /\ response' = FormatTranslation(done.result, request.text)
    /\ attempts' = << >>
    /\ last' = [op |-> "process_task", task |-> "TRANSLATION",
                fallback |-> fallback, content |-> content,
                japanese_analysis |-> japanese_analysis, outcome |-> "returned"]
    /\ UNCHANGED agent_vars
    /\ UNCHANGED <<models, orch_initialized, task_preferences>>

\* ModelOrchestrator.process_task
ProcessTask ==
    \/ \E task_type \in TaskType, fallback \in BOOLEAN :
         ProcessGenericTask(task_type, fallback)
    \/ \E content \in Contents, japanese_analysis \in BOOLEAN, fallback \in BOOLEAN,
          registering \in Registering :
         ProcessTranslationTask(content, japanese_analysis, fallback, registering)

\* The providers whose LLMService.initialize can raise in environment env
MayRaiseIn(env) ==
    {p \in Range(GetAvailableProviders(env)) : InitializeMayRaise(p)}

\* The caller of process_task or translate has taken the result (or the
\* exception): the observation of the call ends, the objects are as the
\* call left them
Return ==
    /\ last # Idle
    /\ last' = Idle
    /\ attempts' = << >>
    /\ ts_attempts' = << >>
    /\ ts_result' = NoResult
    /\ response' = NoResponse
    /\ reply' = NoReply
    /\ UNCHANGED agent_state
    /\ UNCHANGED <<models, orch_initialized, task_preferences,
                   ts_providers, ts_initialized>>

Next ==
    \/ \E env \in Environment, registering \in Registering :
         \E raising \in SUBSET MayRaiseIn(env) :
           Initialize(env, raising, registering)
    \/ \E update \in PreferenceUpdates :
         SetTaskPreference(update[1], update[2])
    \/ ProcessTask
    \/ Return

Spec == Init /\ [][Next]_vars

-----------------------------------------------------------------------------
(* The translation service used on its own *)

\* The languages a direct caller asks for, and the providers it names
\* ("None": no provider)
TargetLangs == {"en", "ja", "fr"}
SourceLangs == {"auto", "ja", "en"}
RequestedProviders == {"None"} \cup TranslationProvider

\* TranslationService.initialize, called directly
TSInitialize(registering) ==
    /\ last = Idle
    /\ ts_providers' = TSInitialized(registering)
    /\ ts_initialized' = TRUE
    /\ UNCHANGED agent_vars
    /\ UNCHANGED <<models, orch_initialized, task_preferences, last, attempts,
                   ts_attempts, ts_result, response>>

\* The outcomes the requested provider's translate can have
RequestedOutcomes(provider, registered) ==
    IF UseRequestedProvider(provider, registered) /\ TranslateMayRaise(provider)
    THEN BOOLEAN ELSE {TRUE}

\* TranslationService.translate
Translate(text, target_lang, source_lang, provider, registering) ==
    /\ last = Idle
    /\ ts_providers' = TSInitialized(registering)
    /\ ts_initialized' = TRUE
    /\ LET registered == TSInitialized(registering)
           actual == IF source_lang = "auto" THEN DetectLanguage(text)
                     ELSE source_lang
       IN  \E requested_ok \in RequestedOutcomes(provider, registered),
              ok \in TranslateOutcomes(ProviderPreferences(<<actual, target_lang>>)) :
             LET done == TranslateWith(text, target_lang, source_lang, provider,
                                       registered, requested_ok, ok)
             IN  /\ ts_attempts' = done.attempts
                 /\ ts_result' = done.result
                 /\ last' = [op |-> "translate", text |-> text,
                             target_lang |-> target_lang,
                             source_lang |-> source_lang, provider |-> provider,
                             requested_ok |-> requested_ok, outcome |-> "returned"]
    /\ attempts' = << >>
    /\ response' = NoResponse
    /\ UNCHANGED agent_vars
    /\ UNCHANGED <<models, orch_initialized, task_preferences>>

NextTranslation ==
    \/ \E registering \in Registering : TSInitialize(registering)
    \/ \E text \in Texts, target_lang \in TargetLangs, source_lang \in SourceLangs,
          provider \in RequestedProviders, registering \in Registering :
         Translate(text, target_lang, source_lang, provider, registering)
    \/ Return

SpecTranslation == Init /\ [][NextTranslation]_vars

-----------------------------------------------------------------------------
(* Properties *)

\* The entries of a preference list that are in the active set, in list order
ActiveChain(preferred, active) ==
    LET InActive(name) == name \in active IN SelectSeq(preferred, InActive)

IsPrefix(a, b) == Len(a) <= Len(b) /\ a = SubSeq(b, 1, Len(a))

AllRaised(calls) == \A k \in 1..Len(calls) : calls[k].raised

\* The state was produced by process_task for a task that is not a translation
GenericCall == last.op = "process_task" /\ last.task # "TRANSLATION"

\* "Sorry, no models available for <task> task." was returned
SaysNoModels ==
    /\ last.outcome = "returned"
    /\ response.kind = "no_models"
    /\ response.text = "Sorry, no models available for " \o TaskValue[last.task] \o " task."

\* C1: with fallback enabled a task that is not a translation calls the
\* active entries of its preference list one after the other in list order;
\* every call but the last raised; the response is the output of the first
\* call that returned, and no entry after it is called; when no call
\* returned every active entry was called.  No provider of a list without
\* repetitions is called twice.
C1_ChainInOrder ==
    (GenericCall /\ last.fallback) =>
        LET preferred == task_preferences[last.task]
            chain == ActiveChain(preferred, models)
            n == Len(attempts)
        IN  /\ IsPrefix(Names(attempts), chain)
            /\ \A k \in 1..(n - 1) : attempts[k].raised
            /\ IF response.kind = "generated"
               THEN n > 0 /\ ~attempts[n].raised /\ response.by = attempts[n].name
               ELSE AllRaised(attempts) /\ n = Len(chain)
            /\ NoDuplicates(preferred) =>
                 \A name \in Range(chain) : Count(Names(attempts), name) <= 1

\* C1 witness: the first active entry raised, the second returned and its
\* output is the response, a third active entry was not called
C1_Witness ==
    /\ GenericCall /\ last.fallback
    /\ Len(attempts) = 2
    /\ attempts[1].raised /\ ~attempts[2].raised
    /\ response = Generated(attempts[2].name)
    /\ Len(ActiveChain(task_preferences[last.task], models)) > 2

\* C2 as stated: process_task with an empty active set returns the "no
\* models available" string for every task category
C2_Original ==
    (last.op = "process_task" /\ models = {}) => SaysNoModels

\* C2 amended: process_task with an empty active set never raises and calls
\* no provider of the set; a task that is not a translation gets the "no
\* models available" string, a translation task gets the answer of the
\* translation service
C2_EmptyActiveSet ==
    (last.op = "process_task" /\ models = {}) =>
        /\ last.outcome = "returned"
        /\ attempts = << >>
        /\ IF last.task # "TRANSLATION" THEN SaysNoModels
           ELSE /\ response.kind \in {"translation", "could_not_translate"}
                /\ ts_attempts # << >>

\* C2 witness: a grammar task on an orchestrator without active providers
C2_Witness ==
    /\ last.op = "process_task" /\ models = {}
    /\ last.task = "GRAMMAR_ANALYSIS"
    /\ SaysNoModels

\* C3: with fallback enabled process_task returns, whatever the generate
\* calls do, and when every call raised it returns the "no models
\* available" string of the task
C3_FailuresNotPropagated ==
    (last.op = "process_task" /\ last.fallback) =>
        /\ last.outcome = "returned"
        /\ (last.task # "TRANSLATION" /\ AllRaised(attempts)) => SaysNoModels

\* C3 witness: two generate calls, both raised, and the string was returned
C3_Witness ==
    /\ GenericCall /\ last.fallback
    /\ Len(attempts) >= 2 /\ AllRaised(attempts)
    /\ SaysNoModels

\* C4: without fallback at most one provider is called, the first active
\* entry of the list, and process_task raises exactly when that call raised
C4_FailFast ==
    (GenericCall /\ ~last.fallback) =>
        /\ Len(attempts) <= 1
        /\ attempts # << >> =>
             /\ attempts[1].name = ActiveChain(task_preferences[last.task], models)[1]
             /\ attempts[1].raised <=> last.outcome = "raised"
        /\ attempts = << >> => last.outcome = "returned"

\* C4 witness: the first of several active entries raised, process_task raised
C4_Witness ==
    /\ GenericCall /\ ~last.fallback
    /\ Len(attempts) = 1 /\ attempts[1].raised
    /\ last.outcome = "raised"
    /\ Len(ActiveChain(task_preferences[last.task], models)) >= 2

\* C5: process_task calls generate only on names of the active set; a name
\* outside it is passed over: the first call is on the first active entry,
\* and when the list has no active entry process_task returns the "no
\* models available" string; process_task raises only out of a generate call
C5_InactiveNamesSkipped ==
    GenericCall =>
        LET chain == ActiveChain(task_preferences[last.task], models) IN
        /\ \A k \in 1..Len(attempts) : attempts[k].name \in models
        /\ IF chain = << >> THEN attempts = << >> /\ SaysNoModels
           ELSE attempts # << >> /\ attempts[1].name = chain[1]
        /\ last.outcome = "raised" =>
             attempts # << >> /\ attempts[Len(attempts)].raised

\* C5 witness: a list installed by set_task_preference starts with a name
\* that is not active, and the entry behind it was called
C5_Witness ==
    /\ GenericCall
    /\ task_preferences[last.task] # DefaultPreferences[last.task]
    /\ task_preferences[last.task][1] \notin models
    /\ attempts # << >>
    /\ attempts[1].name = task_preferences[last.task][2]

\* C6: a translation task calls generate on no provider of the active set;
\* its response is the formatted result of the translation service
C6_TranslationBypassesChain ==
    (last.op = "process_task" /\ last.task = "TRANSLATION") =>
        /\ attempts = << >>
        /\ last.outcome = "returned"
        /\ ts_attempts # << >>
        /\ response.kind \in {"translation", "could_not_translate"}
        /\ response.by = ts_result.provider

\* C6 witness: a translation task without fallback, with a changed table
\* entry for translation whose provider is active
C6_Witness ==
    /\ last.op = "process_task" /\ last.task = "TRANSLATION"
    /\ ~last.fallback
    /\ task_preferences["TRANSLATION"] = <<"ollama">>
    /\ "ollama" \in models
    /\ response.kind = "translation"

\* C7: once initialize has completed no operation changes the active set
C7_ActiveSetFixed == [][orch_initialized => models' = models]_vars

\* C8: when initialize has returned the active set holds the fallback
\* responder
C8_SimpleAlwaysActive ==
    orch_initialized => models # {} /\ "simple" \in models

\* C8 witness: initialize has returned, with some providers active and
\* others not
C8_Witness ==
    /\ orch_initialized
    /\ "ollama" \notin models /\ "anthropic" \notin models
    /\ "groq" \in models

\* The language pair translate looks up for the observed call
ObservedPair ==
    <<IF last.source_lang = "auto" THEN DetectLanguage(last.text)
      ELSE last.source_lang, last.target_lang>>

\* C9: translate with a requested provider that is not registered returns,
\* never calls that provider, and calls the registered entries of the
\* pair's preference list in order, as a call without a provider does
C9_UnregisteredProviderUsesChain ==
    (last.op = "translate" /\ last.provider # "None"
        /\ last.provider \notin ts_providers) =>
        /\ last.outcome = "returned"
        /\ \A k \in 1..Len(ts_attempts) : ts_attempts[k].name # last.provider
        /\ IsPrefix(Names(ts_attempts),
                    ActiveChain(ProviderPreferences(ObservedPair), ts_providers))
        /\ \E ok \in TranslateOutcomes(ProviderPreferences(ObservedPair)) :
             TranslateWith(last.text, last.target_lang, last.source_lang, "None",
                           ts_providers, TRUE, ok)
               = [attempts |-> ts_attempts, result |-> ts_result]

\* C9 witness: deepl was requested, the list's first registered provider
\* raised and the next one answered
C9_Witness ==
    /\ last.op = "translate" /\ last.provider = "deepl"
    /\ Len(ts_attempts) = 2
    /\ ts_attempts[1].raised /\ ~ts_attempts[2].raised
    /\ ts_result.provider = "simple"

\* C10: when the requested provider is registered and its translate
\* returns, it is the only provider called and the result is its result
C10_RequestedProviderOnly ==
    (last.op = "translate" /\ last.provider \in ts_providers /\ last.requested_ok) =>
        /\ ts_attempts = <<Call(last.provider, FALSE)>>
        /\ ts_result = ProviderTranslate(last.provider, last.text,
                                         ObservedPair[1], ObservedPair[2])
        /\ ts_result.provider \in {last.provider, "llm_" \o last.provider}

\* C10 witness: ollama, which is in no preference list, was requested for a
\* pair whose list starts with other registered providers, and answered
C10_Witness ==
    /\ last.op = "translate" /\ last.provider = "ollama"
    /\ last.requested_ok
    /\ "google" \in ts_providers
    /\ ObservedPair = <<"ja", "en">>
    /\ ts_result.provider = "llm_ollama"

\* The language pairs translate can look up: the source is the one given or
\* the one detected ("unknown" for a text without letters)
LangPairs == (SourceLangs \cup {"unknown"}) \X TargetLangs

\* C12: simple is the last entry of every pair's preference list, the
\* default list included; translate always returns; the last provider it
\* called returned, and when every provider called before simple raised the
\* result is the dictionary provider's result for the text and the pair;
\* the "every provider failed" result is never produced
C12_SimpleIsBackstop ==
    /\ \A lang_pair \in LangPairs :
         LET preferred == ProviderPreferences(lang_pair) IN
         /\ preferred[Len(preferred)] = "simple"
         /\ Count(preferred, "simple") = 1
    /\ last.op = "translate" =>
         LET n == Len(ts_attempts) IN
         /\ last.outcome = "returned"
         /\ n > 0 /\ ~ts_attempts[n].raised
         /\ \A k \in 1..(n - 1) : ts_attempts[k].raised
         /\ ts_attempts[n].name = "simple" =>
              ts_result = SimpleTranslate(last.text, ObservedPair[1], ObservedPair[2])
         /\ ts_result.provider # "none" /\ ts_result.method # "error"

\* C12 witness: the requested provider and both remote providers of the
\* list raised, and the walk ended with the dictionary provider's result
C12_Witness ==
    /\ last.op = "translate" /\ last.provider = "ollama"
    /\ Names(ts_attempts) = <<"ollama", "google", "anthropic", "simple">>
    /\ \A k \in 1..3 : ts_attempts[k].raised
    /\ ~ts_attempts[4].raised
    /\ ts_result.provider = "simple" /\ ts_result.method = "exact_match"

-----------------------------------------------------------------------------
(* core/agent.py: the functions of AIAgent that read only the message *)

\* any(word in s for word in words)
AnyIn(words, s) == \E word \in words : Contains(s, word)

\* AIAgent._classify_task and AIAgent.process_message: the keyword lists
VocabularyKeywords ==
    {<<"j","l","p","t">>,
     <<"v","o","c","a","b","u","l","a","r","y">>,
     <<"v","o","c","a","b">>,
     <<"w","o","r","d">>,
     <<"k","a","n","j","i">>,
     <<"n","1">>,
     <<"n","2">>,
     <<"n","3">>,
     <<"n","4">>,
     <<"n","5">>}
SearchVerbs ==
    {<<"s","e","a","r","c","h">>,
     <<"f","i","n","d">>,
     <<"l","o","o","k"," ","f","o","r">>,
     <<"w","h","a","t"," ","i","s">>}
TranslationKeywords ==
    {<<"t","r","a","n","s","l","a","t","e">>,
     <<"t","r","a","n","s","l","a","t","i","o","n">>,
     <<"m","e","a","n">>,
     <<"e","n","g","l","i","s","h">>}
GrammarKeywords ==
    {<<"g","r","a","m","m","a","r">>,
     <<"p","a","r","t","i","c","l","e">>,
     <<"e","x","p","l","a","i","n">>,
     <<"w","h","y">>,
     <<"h","o","w">>}
AnalysisKeywords ==
    {<<"a","n","a","l","y","z","e">>,
     <<"a","n","a","l","y","s","i","s">>,
     <<"b","r","e","a","k","d","o","w","n">>,
     <<"p","a","r","s","e">>}
CreativeKeywords ==
    {<<"w","r","i","t","e">>,
     <<"c","r","e","a","t","e">>,
     <<"c","o","m","p","o","s","e">>,
     <<"s","t","o","r","y">>,
     <<"e","s","s","a","y">>}

\* AIAgent._classify_task line 229: the length below which a message with a
\* question mark is a quick question
QuickLength == 50

\* _classify_task with the translation test moved in front of the
\* vocabulary test
ClassifyTaskTranslationFirst(message) ==
    LET message_lower == Lower(message) IN
    IF AnyIn(TranslationKeywords, message_lower) THEN "TRANSLATION"
    ELSE IF AnyIn(VocabularyKeywords, message_lower)
            /\ AnyIn(SearchVerbs, message_lower) THEN "TEXT_ANALYSIS"
    ELSE IF AnyIn(GrammarKeywords, message_lower) THEN "GRAMMAR_ANALYSIS"
    ELSE IF AnyIn(AnalysisKeywords, message_lower) THEN "TEXT_ANALYSIS"
    ELSE IF AnyIn(CreativeKeywords, message_lower) THEN "CREATIVE_WRITING"
    ELSE IF Len(message) < QuickLength /\ Contains(message, <<"?">>)
    THEN "QUICK_RESPONSE"
    ELSE "CHAT"

\* AIAgent._classify_task: the member of TaskType returned
ClassifyTask(message) ==
    LET message_lower == Lower(message) IN
    IF AnyIn(VocabularyKeywords, message_lower)
       /\ AnyIn(SearchVerbs, message_lower) THEN "TEXT_ANALYSIS"
    ELSE IF AnyIn(TranslationKeywords, message_lower) THEN "TRANSLATION"
    ELSE IF AnyIn(GrammarKeywords, message_lower) THEN "GRAMMAR_ANALYSIS"
    ELSE IF AnyIn(AnalysisKeywords, message_lower) THEN "TEXT_ANALYSIS"
    ELSE IF AnyIn(CreativeKeywords, message_lower) THEN "CREATIVE_WRITING"
    ELSE IF Len(message) < QuickLength /\ Contains(message, <<"?">>)
    THEN "QUICK_RESPONSE"
    ELSE "CHAT"

\* AIAgent._extract_search_terms: stop_words
StopWords ==
    {<<"w","h","a","t">>,
     <<"i","s">>,
     <<"t","h","e">>,
     <<"m","e","a","n","i","n","g">>,
     <<"o","f">>,
     <<"d","o","e","s">>,
     <<"m","e","a","n">>,
     <<"h","o","w">>,
     <<"t","o">>,
     <<"s","a","y">>,
     <<"j","l","p","t">>,
     <<"v","o","c","a","b","u","l","a","r","y">>,
     <<"w","o","r","d">>}

\* any(ord(char) > 127 for char in word)
HasNonAscii(word) == \E i \in 1..Len(word) : word[i] \notin Ascii

\* words[:n]
FirstN(words, n) == SubSeq(words, 1, IF Len(words) < n THEN Len(words) ELSE n)

\* _extract_search_terms line 175: the test a token passes to stay
IsSearchWord(word) == Lower(word) \notin StopWords /\ Len(word) > 1

\* _extract_search_terms that takes the first three tokens whatever they hold
ExtractSearchTermsFirstThree(message) ==
    JoinWords(FirstN(SelectSeq(SplitWords(message), IsSearchWord), 3))

\* AIAgent._extract_search_terms
ExtractSearchTerms(message) ==
    LET words == SplitWords(message)
        search_words == SelectSeq(words, IsSearchWord)
        japanese_words == SelectSeq(search_words, HasNonAscii)
    IN  IF japanese_words # << >>
        THEN JoinWords(FirstN(japanese_words, 2))
        ELSE JoinWords(FirstN(search_words, 3))

\* The messages handed to the agent
Messages == {
    \* ""
    << >>,
    \* "   "
    <<" "," "," ">>,
    \* "hello there"
    <<"h","e","l","l","o"," ","t","h","e","r","e">>,
    \* "what is the jlpt word for cat"
    <<"w","h","a","t"," ","i","s"," ","t","h","e"," ","j","l","p","t"," ",
     "w","o","r","d"," ","f","o","r"," ","c","a","t">>,
    \* "find kanji U+6c34"
    <<"f","i","n","d"," ","k","a","n","j","i"," ","u6c34">>,
    \* "jlpt n5 kanji list"
    <<"j","l","p","t"," ","n","5"," ","k","a","n","j","i"," ","l","i","s","t">>,
    \* "translate the word neko"
    <<"t","r","a","n","s","l","a","t","e"," ","t","h","e"," ","w","o","r","d"," ","n","e","k","o">>,
    \* "what is the english word for U+732b?"
    <<"w","h","a","t"," ","i","s"," ","t","h","e"," ","e","n","g","l","i",
     "s","h"," ","w","o","r","d"," ","f","o","r"," ","u732b","?">>,
    \* "Translate this please"
    <<"T","r","a","n","s","l","a","t","e"," ","t","h","i","s"," ","p","l","e","a","s","e">>,
    \* "what does U+732b mean"
    <<"w","h","a","t"," ","d","o","e","s"," ","u732b"," ","m","e","a","n">>,
    \* "what does U+3053U+3093U+306bU+3061U+306f mean"
    <<"w","h","a","t"," ","d","o","e","s"," ","u3053","u3093","u306b","u3061",
     "u306f"," ","m","e","a","n">>,
    \* "the meaning of life"
    <<"t","h","e"," ","m","e","a","n","i","n","g"," ","o","f"," ","l","i","f","e">>,
    \* "explain the translation"
    <<"e","x","p","l","a","i","n"," ","t","h","e"," ","t","r","a","n","s","l","a","t","i","o","n">>,
    \* "Why does this use U+306f?"
    <<"W","h","y"," ","d","o","e","s"," ","t","h","i","s"," ","u","s","e"," ","u306f","?">>,
    \* "show me"
    <<"s","h","o","w"," ","m","e">>,
    \* "analyze this grammar"
    <<"a","n","a","l","y","z","e"," ","t","h","i","s"," ","g","r","a","m","m","a","r">>,
    \* "parse U+79c1U+306fU+5b66U+751fU+3067U+3059"
    <<"p","a","r","s","e"," ","u79c1","u306f","u5b66","u751f","u3067","u3059">>,
    \* "write an analysis"
    <<"w","r","i","t","e"," ","a","n"," ","a","n","a","l","y","s","i","s">>,
    \* "compose a story"
    <<"c","o","m","p","o","s","e"," ","a"," ","s","t","o","r","y">>,
    \* "write me a poem?"
    <<"w","r","i","t","e"," ","m","e"," ","a"," ","p","o","e","m","?">>,
    \* "is it ok?"
    <<"i","s"," ","i","t"," ","o","k","?">>,
    \* "?"
    <<"?">>,
    \* "ENGLISH"
    <<"E","N","G","L","I","S","H">>,
    \* "n1"
    <<"n","1">>,
    \* "n1?"
    <<"n","1","?">>,
    \* "search vocab"
    <<"s","e","a","r","c","h"," ","v","o","c","a","b">>,
    \* "look for kanji"
    <<"l","o","o","k"," ","f","o","r"," ","k","a","n","j","i">>,
    \* "how to say U+72ac"
    <<"h","o","w"," ","t","o"," ","s","a","y"," ","u72ac">>,
    \* "what is this"
    <<"w","h","a","t"," ","i","s"," ","t","h","i","s">>,
    \* "what is the meaning of U+732b"
    <<"w","h","a","t"," ","i","s"," ","t","h","e"," ","m","e","a","n","i",
     "n","g"," ","o","f"," ","u732b">>,
    \* "jlpt vocabulary U+98dfU+3079U+308b U+98f2U+3080 U+898bU+308b"
    <<"j","l","p","t"," ","v","o","c","a","b","u","l","a","r","y"," ","u98df",
     "u3079","u308b"," ","u98f2","u3080"," ","u898b","u308b">>,
    \* "word for cat and dog please"
    <<"w","o","r","d"," ","f","o","r"," ","c","a","t"," ","a","n","d"," ",
     "d","o","g"," ","p","l","e","a","s","e">>,
    \* "kanji U+6c34 water"
    <<"k","a","n","j","i"," ","u6c34"," ","w","a","t","e","r">>,
    \* "What IS the JLPT Word neko"
    <<"W","h","a","t"," ","I","S"," ","t","h","e"," ","J","L","P","T"," ",
     "W","o","r","d"," ","n","e","k","o">>,
    \* "a b c word"
    <<"a"," ","b"," ","c"," ","w","o","r","d">>,
    \* "what is word?"
    <<"w","h","a","t"," ","i","s"," ","w","o","r","d","?">>,
    \* "vocab U+5b66U+751f x U+5148U+751f U+732bU+3067U+3059"
    <<"v","o","c","a","b"," ","u5b66","u751f"," ","x"," ","u5148","u751f",
     " ","u732b","u3067","u3059">>,
    \* "N5 kanji U+5b66U+6821"
    <<"N","5"," ","k","a","n","j","i"," ","u5b66","u6821">>,
    \* "kanji U+5c71"
    <<"k","a","n","j","i"," ","u5c71">>,
    \* "is it ok?                                        "
    <<"i","s"," ","i","t"," ","o","k","?"," "," "," "," "," "," "," "," ",
     " "," "," "," "," "," "," "," "," "," "," "," "," "," "," "," "," ",
     " "," "," "," "," "," "," "," "," "," "," "," "," "," "," ">>,
    \* "is it ok?                                         "
    <<"i","s"," ","i","t"," ","o","k","?"," "," "," "," "," "," "," "," ",
     " "," "," "," "," "," "," "," "," "," "," "," "," "," "," "," "," ",
     " "," "," "," "," "," "," "," "," "," "," "," "," "," "," "," ">>,
    \* "is it ok?                                          "
    <<"i","s"," ","i","t"," ","o","k","?"," "," "," "," "," "," "," "," ",
     " "," "," "," "," "," "," "," "," "," "," "," "," "," "," "," "," ",
     " "," "," "," "," "," "," "," "," "," "," "," "," "," "," "," "," ">>,
    \* "xxxxxxxxxxxxxxxxxxxxxxxxxxxxxxxxxxxxxxxxxxxxxxxx?"
    <<"x","x","x","x","x","x","x","x","x","x","x","x","x","x","x","x","x",
     "x","x","x","x","x","x","x","x","x","x","x","x","x","x","x","x","x",
     "x","x","x","x","x","x","x","x","x","x","x","x","x","x","?">>,
    \* "xxxxxxxxxxxxxxxxxxxxxxxxxxxxxxxxxxxxxxxxxxxxxxxxx?"
    <<"x","x","x","x","x","x","x","x","x","x","x","x","x","x","x","x","x",
     "x","x","x","x","x","x","x","x","x","x","x","x","x","x","x","x","x",
     "x","x","x","x","x","x","x","x","x","x","x","x","x","x","x","?">>,
    \* "this is a long sentence with no special content at all ok"
    <<"t","h","i","s"," ","i","s"," ","a"," ","l","o","n","g"," ","s","e",
     "n","t","e","n","c","e"," ","w","i","t","h"," ","n","o"," ","s","p",
     "e","c","i","a","l"," ","c","o","n","t","e","n","t"," ","a","t"," ",
     "a","l","l"," ","o","k">>,
    \* "please translate this rather long sentence into something else"
    <<"p","l","e","a","s","e"," ","t","r","a","n","s","l","a","t","e"," ",
     "t","h","i","s"," ","r","a","t","h","e","r"," ","l","o","n","g"," ",
     "s","e","n","t","e","n","c","e"," ","i","n","t","o"," ","s","o","m",
     "e","t","h","i","n","g"," ","e","l","s","e">>,
    \* "create an essay"
    <<"c","r","e","a","t","e"," ","a","n"," ","e","s","s","a","y">>,
    \* "particle U+306f"
    <<"p","a","r","t","i","c","l","e"," ","u306f">>,
    \* "breakdown please"
    <<"b","r","e","a","k","d","o","w","n"," ","p","l","e","a","s","e">>,
    \* "explain why?"
    <<"e","x","p","l","a","i","n"," ","w","h","y","?">>,
    \* "kanji?"
    <<"k","a","n","j","i","?">>,
    \* "in japanese how are you"
    <<"i","n"," ","j","a","p","a","n","e","s","e"," ","h","o","w"," ","a","r","e"," ","y","o","u">>,
    \* "tell me a story about U+732b and U+72ac"
    <<"t","e","l","l"," ","m","e"," ","a"," ","s","t","o","r","y"," ","a",
     "b","o","u","t"," ","u732b"," ","a","n","d"," ","u72ac">>}

\* AIAgent._classify_task
Classify(message) ==
    /\ last = Idle
    /\ last' = [op |-> "_classify_task", message |-> message]
    /\ reply' = [kind |-> "task_type", task_type |-> ClassifyTask(message)]
    /\ UNCHANGED <<models, orch_initialized, task_preferences, ts_providers,
                   ts_initialized, attempts, ts_attempts, ts_result, response,
                   agent_state>>

\* AIAgent._extract_search_terms
ExtractTerms(message) ==
    /\ last = Idle
    /\ last' = [op |-> "_extract_search_terms", message |-> message]
    /\ reply' = [kind |-> "search_terms", terms |-> ExtractSearchTerms(message)]
    /\ UNCHANGED <<models, orch_initialized, task_preferences, ts_providers,
                   ts_initialized, attempts, ts_attempts, ts_result, response,
                   agent_state>>

\* AIAgent.translate_text line 251: f"Translate to {target_language}: {text}"
TranslateTextContent(text, target_language) ==
    <<"T", "r", "a", "n", "s", "l", "a", "t", "e", " ", "t", "o", " ">>
        \o (IF target_language = "ja" THEN <<"j", "a">> ELSE <<"e", "n">>)
        \o <<":", " ">> \o text

\* The target languages asked of AIAgent.translate_text
TargetLanguages == {"en", "ja"}

\* Requests in free text, as process_message hands them on
FreeTextRequests == {
    \* "translate hello"
    <<"t","r","a","n","s","l","a","t","e"," ","h","e","l","l","o">>,
    \* "please translate: good morning"
    <<"p","l","e","a","s","e"," ","t","r","a","n","s","l","a","t","e",":"," ","g","o","o","d"," ","m","o","r","n","i","n","g">>,
    \* "translate to japanese: thank you"
    <<"t","r","a","n","s","l","a","t","e"," ","t","o"," ","j","a","p","a","n","e","s","e",":"," ","t","h","a","n","k"," ","y","o","u">>,
    \* "TRANSLATE hello"
    <<"T","R","A","N","S","L","A","T","E"," ","h","e","l","l","o">>,
    \* "translate"
    <<"t","r","a","n","s","l","a","t","e">>,
    \* "translate to ja: cat"
    <<"t","r","a","n","s","l","a","t","e"," ","t","o"," ","j","a",":"," ","c","a","t">>,
    \* "how do you say hello in japanese"
    <<"h","o","w"," ","d","o"," ","y","o","u"," ","s","a","y"," ","h","e","l","l","o"," ","i","n"," ","j","a","p","a","n","e","s","e">>,
    \* "what does mean"
    <<"w","h","a","t"," ","d","o","e","s"," ","m","e","a","n">>,
    \* "mean what does x"
    <<"m","e","a","n"," ","w","h","a","t"," ","d","o","e","s"," ","x">>,
    \* "the meaning of U+732b"
    <<"t","h","e"," ","m","e","a","n","i","n","g"," ","o","f"," ","u732b">>,
    \* "translate in japanese: dog"
    <<"t","r","a","n","s","l","a","t","e"," ","i","n"," ","j","a","p","a","n","e","s","e",":"," ","d","o","g">>,
    \* "translate to english: U+3053U+3093U+306bU+3061U+306f"
    <<"t","r","a","n","s","l","a","t","e"," ","t","o"," ","e","n","g","l","i","s","h",":"," ","u3053","u3093","u306b","u3061","u306f">>,
    \* "what does U+3053U+3093U+306bU+3061U+306f mean"
    <<"w","h","a","t"," ","d","o","e","s"," ","u3053","u3093","u306b","u3061","u306f"," ","m","e","a","n">>,
    \* "What Does U+732b Mean"
    <<"W","h","a","t"," ","D","o","e","s"," ","u732b"," ","M","e","a","n">>,
    \* "Please translate to English: U+3042U+308aU+304cU+3068U+3046"
    <<"P","l","e","a","s","e"," ","t","r","a","n","s","l","a","t","e"," ","t","o"," ","E","n","g","l","i","s","h",":"," ","u3042","u308a","u304c","u3068","u3046">>,
    \* "translate:   water  "
    <<"t","r","a","n","s","l","a","t","e",":"," "," "," ","w","a","t","e","r"," "," ">>}

\* The contents of translation tasks: those AIAgent.translate_text builds
\* and requests in free text
ParserContents ==
    {TranslateTextContent(text, target_language) :
        text \in Texts, target_language \in TargetLanguages}
    \cup FreeTextRequests

\* ModelOrchestrator._handle_translation_task lines 257-293: the arguments
\* of the translate call made for a content
ParseTranslationRequest(content) ==
    /\ last = Idle
    /\ last' = [op |-> "_handle_translation_task", content |-> content]
    /\ reply' = [kind |-> "translation_request",
                 text |-> TextToTranslate(content),
                 target_lang |-> TargetLang(content)]
    /\ UNCHANGED <<models, orch_initialized, task_preferences, ts_providers,
                   ts_initialized, attempts, ts_attempts, ts_result, response,
                   agent_state>>

NextText ==
    \/ \E message \in Messages : Classify(message)
    \/ \E message \in Messages : ExtractTerms(message)
    \/ \E content \in ParserContents : ParseTranslationRequest(content)
    \/ Return

SpecText == Init /\ [][NextText]_vars

-----------------------------------------------------------------------------
(* core/agent.py: AIAgent *)

\* LLMService.initialize(provider) on the agent's llm_service: the provider
\* instance is replaced first; `initialized` is LLMService.is_initialized,
\* set only when the instance's initialize returned (ok); `ready` is the
\* instance's own is_initialized
LLMInitialize(service, provider, ok) ==
    [instance |-> ProviderInstance(provider),
     initialized |-> IF ok THEN TRUE ELSE service.initialized,
     ready |-> ok]

\* The outcomes <Provider>.initialize can have for a provider name
LLMInitializeOutcomes(provider) ==
    IF InitializeMayRaise(provider) THEN BOOLEAN ELSE {TRUE}

\* The outcomes LLMService.generate_response can have on the agent's
\* llm_service: it raises when the service or the instance is not
\* initialized, a SimpleProvider always answers
LLMGenerateOutcomes(service) ==
    IF ~service.initialized \/ service.instance = "None" \/ ~service.ready
    THEN {FALSE}
    ELSE IF service.instance = "SimpleProvider" THEN {TRUE}
    ELSE BOOLEAN

\* AIAgent._store_conversation lines 381-382: the length above which the log
\* is cut, and the number of records kept
HistoryCap == 1000
HistoryKeep == 500

\* Conversation(user_id=..., user_message=..., ai_response=...)
Conversation(user_id, user_message, ai_response) ==
    [user_id |-> user_id, user_message |-> user_message,
     ai_response |-> ai_response]

\* history[-n:]
LastN(history, n) ==
    IF Len(history) <= n THEN history
    ELSE SubSeq(history, Len(history) - n + 1, Len(history))

\* _store_conversation that cuts the log down to the cap
StoreConversationToCap(history, conversation) ==
    LET appended == Append(history, conversation) IN
    IF Len(appended) > HistoryCap THEN LastN(appended, HistoryCap) ELSE appended

\* AIAgent._store_conversation: the log after the call
StoreConversation(history, conversation) ==
    LET appended == Append(history, conversation) IN
    IF Len(appended) > HistoryCap THEN LastN(appended, HistoryKeep) ELSE appended

\* process_message line 108: n_results=5
NResults == 5

\* What the retrieval query can do: raise, or return 0..5 results
RetrievalOutcomes ==
    {[raised |-> TRUE, found |-> 0]}
        \cup {[raised |-> FALSE, found |-> n] : n \in 0..NResults}


\* RetrievalBlocks without the except clauses: a query that raises ends the
\* request
RetrievalBlocksOnRaise(retrieval) == retrieval.raised

\* search_jlpt_vocabulary lines 289-291 and process_message lines 110-111:
\* an exception of the query is caught and logged; it never ends the request
RetrievalBlocks(retrieval) == FALSE

\* The prompt a provider is given: the message as it is (process_message
\* lines 126 and 137), or the message with the first three results
\* (_generate_jlpt_enhanced_response lines 191-199)
MessagePrompt(message) ==
    [kind |-> "message", message |-> message, results |-> << >>]
EnhancedPrompt(message, jlpt_results) ==
    [kind |-> "enhanced", message |-> message, results |-> FirstN(jlpt_results, 3)]

\* process_message line 123
UseOrchestrator(task_type, orchestrator_initialized) ==
    orchestrator_initialized /\ task_type # "CHAT"

\* process_message line 160: the fixed apology of the error dict
Apology ==
    <<
      "u7533", "u3057", "u8a33", "u3054", "u3056", "u3044", "u307e",
      "u305b", "u3093", "u3002", "u30a8", "u30e9", "u30fc", "u304c",
      "u767a", "u751f", "u3057", "u307e", "u3057", "u305f", "u3002",
      "u3082", "u3046", "u4e00", "u5ea6", "u304a", "u8a66", "u3057",
      "u304f", "u3060", "u3055", "u3044", "u3002"
    >>

\* process_message lines 159-164
ErrorReply ==
    [kind |-> "error", response |-> Apology, task_type |-> "error",
     provider_used |-> "error-fallback"]

\* ReachesStore with the store made for a request that failed as well
ReachesStoreAlways(user_id, run) == user_id # "None"

\* process_message lines 143-144: `if user_id:` is reached only when no
\* statement of the try block before it has raised
ReachesStore(user_id, run) ==
    user_id # "None" /\ run.reply.kind = "result"

\* process_message lines 148-155
MessageReply(task_type, provider_used, jlpt_results, prompt, answer) ==
    [kind |-> "result", task_type |-> TaskValue[task_type],
     provider_used |-> provider_used, jlpt_results |-> jlpt_results,
     prompt |-> prompt, response |-> answer]

\* The providers an agent is initialized with or switched to
AgentProviders == {"simple", "ollama"}

\* The environments the agent runs in: the local Ollama server is up or down
AgentEnvironments ==
    {env \in Environment :
        ~env.transformers /\ ~env.gemini /\ ~env.groq /\ ~env.anthropic}

\* The user_id arguments ("None": no user_id); a request with a user_id is
\* made while the log holds fewer than MaxHistory records
MaxHistory == 1
UserIds ==
    IF Len(conversation_history) < MaxHistory THEN {"None", "u1"} ELSE {"None"}

\* The messages processed by the agent:
\*   a vocabulary query classified as chat; a vocabulary query with a search
\*   verb; a message without keyword; a translation request; a vocabulary
\*   query whose search terms are empty
MessageKanjiList == <<"j","l","p","t"," ","n","5"," ","k","a","n","j","i"," ","l","i","s","t">>
MessageWordForCat == <<"w","h","a","t"," ","i","s"," ","t","h","e"," ","j","l","p","t"," ","w","o","r","d"," ","f","o","r"," ","c","a","t">>
MessageHelloThere == <<"h","e","l","l","o"," ","t","h","e","r","e">>
MessageWhatDoes == ContentWhatDoes
MessageABC == <<"a"," ","b"," ","c"," ","w","o","r","d">>
AgentMessages ==
    {MessageKanjiList, MessageWordForCat, MessageHelloThere, MessageWhatDoes,
     MessageABC}

\* What process_message and _handle_translation_task compute from the
\* message alone (evaluated once per message)
MessageFacts ==
    [message \in AgentMessages |->
        [task_type |-> ClassifyTask(message),
         text |-> TextToTranslate(message),
         target_lang |-> TargetLang(message)]]

\* process_message lines 103-107: the message has a vocabulary keyword and
\* search terms
HasVocabularyQuery(message) ==
    /\ AnyIn(VocabularyKeywords, Lower(message))
    /\ ExtractSearchTerms(message) # << >>

\* HasVocabularyQuery of the messages the agent processes (evaluated once)
VocabularyQuery ==
    [message \in AgentMessages |-> HasVocabularyQuery(message)]

\* process_message lines 101-107: the retrieval subsystem is queried
Queried(message) ==
    jlpt_rag_available /\ VocabularyQuery[message]

\* process_message lines 101-111: jlpt_results, the results numbered in the
\* order the retrieval returned them
JlptResults(message, retrieval) ==
    IF Queried(message) /\ ~retrieval.raised
    THEN [i \in 1..retrieval.found |-> i] ELSE << >>

\* The choices the initialize call made by an operation has: none when the
\* agent is initialized already
InitEnvironments ==
    IF agent_initialized THEN {CHOOSE env \in AgentEnvironments : ~env.ollama}
    ELSE AgentEnvironments
InitRaising(env) ==
    IF agent_initialized THEN {{}} ELSE SUBSET MayRaiseIn(env)
InitRegistering ==
    IF agent_initialized \/ ts_initialized THEN {{}} ELSE {{}, {"google"}}

\* process_message lines 88-89 and translate_text lines 244-245: the
\* objects after `if not self.is_initialized: await self.initialize()`.
\* initialize() with the default provider "simple" does not raise.
InitializedAgent(env, raising, registering) ==
    IF agent_initialized
    THEN [models |-> models, ts_providers |-> ts_providers,
          llm |-> llm_instance, provider |-> current_provider]
    ELSE [models |-> ModelsAfterInitialize(env, raising),
          ts_providers |-> TSInitialized(registering),
          llm |-> LLMInitialize(llm_instance, "simple", TRUE),
          provider |-> "simple"]

\* AIAgent.initialize(provider)
AgentInitialize(provider, llm_ok, env, raising, registering) ==
    /\ last = Idle
    /\ ~agent_initialized
    /\ llm_instance' = LLMInitialize(llm_instance, provider, llm_ok)
    /\ IF llm_ok
       THEN /\ models' = ModelsAfterInitialize(env, raising)
            /\ orch_initialized' = TRUE
            /\ ts_providers' = TSInitialized(registering)
            /\ ts_initialized' = TRUE
            /\ current_provider' = provider
            /\ agent_initialized' = TRUE
       ELSE UNCHANGED <<models, orch_initialized, ts_providers, ts_initialized,
                        current_provider, agent_initialized>>
    /\ UNCHANGED <<task_preferences, last, attempts, ts_attempts, ts_result,
                   response, jlpt_rag_available, conversation_history, reply,
                   requests, stored, rag_vars>>

\* AIAgent.set_provider
SetProvider(provider, llm_ok) ==
    /\ last = Idle
    /\ llm_instance' = LLMInitialize(llm_instance, provider, llm_ok)
    /\ current_provider' = IF llm_ok THEN provider ELSE current_provider
    /\ last' = [op |-> "set_provider", provider |-> provider]
    /\ reply' = [kind |-> "switched", ok |-> llm_ok]
    /\ UNCHANGED <<models, orch_initialized, task_preferences, ts_providers,
                   ts_initialized, attempts, ts_attempts, ts_result, response,
                   agent_initialized, jlpt_rag_available, conversation_history,
                   requests, stored, rag_vars>>

\* The outcomes the retrieval query of one process_message can have: one
\* (unused) when no query is made
Retrievals(message) ==
    IF Queried(message) THEN RetrievalOutcomes
    ELSE {[raised |-> FALSE, found |-> 0]}

\* What process_message saw of the retrieval subsystem
RetrievalSeen(message, retrieval) ==
    IF ~Queried(message) THEN "not_queried"
    ELSE IF retrieval.raised THEN "raised" ELSE "returned"

\* process_message lines 123-129 for a translation task: the orchestrator
\* hands the message to _handle_translation_task, with the japanese_analysis
\* of line 98 in the context
MessageTranslationRuns(now, message, jlpt_results) ==
    LET facts == MessageFacts[message]
        source_lang == SourceLang(TRUE)
    IN  {LET done == TranslateWith(facts.text, facts.target_lang, source_lang,
                                   "None", now.ts_providers, TRUE, ok)
             answer == FormatTranslation(done.result, facts.text)
         IN  [attempts |-> << >>, ts_attempts |-> done.attempts,
              ts_result |-> done.result, response |-> answer,
              reply |-> MessageReply("TRANSLATION", "orchestrated-translation",
                                     jlpt_results, MessagePrompt(message), answer)] :
         ok \in TranslateOutcomes(ProviderPreferences(<<source_lang, facts.target_lang>>))}

\* process_message lines 123-129 for the other tasks handed to the
\* orchestrator: process_task(task_type, content=message, context) with the
\* default fallback=True walks the preference list with the message
MessageOrchestratedRuns(now, task_type, message, jlpt_results) ==
    {LET walk == TryModels(task_type, PreferredModels(task_type), now.models,
                           ok, TRUE, 1, << >>)
     IN  [attempts |-> walk.attempts, ts_attempts |-> << >>,
          ts_result |-> NoResult, response |-> walk.response,
          reply |-> MessageReply(task_type, "orchestrated-" \o TaskValue[task_type],
                                 jlpt_results, MessagePrompt(message),
                                 walk.response)] :
     ok \in GenerateOutcomes(PreferredModels(task_type))}

\* process_message lines 130-140: the agent's own llm_service answers, with
\* the prompt of _generate_jlpt_enhanced_response when results were found;
\* an exception of the call ends in the error dict of lines 157-164
MessageChatRuns(now, task_type, message, jlpt_results) ==
    {IF ok
     THEN LET prompt == IF jlpt_results # << >>
                        THEN EnhancedPrompt(message, jlpt_results)
                        ELSE MessagePrompt(message)
              provider_used == IF jlpt_results # << >>
                               THEN now.provider \o "-jlpt-enhanced"
                               ELSE now.provider
          IN  [attempts |-> <<Call(now.provider, FALSE)>>, ts_attempts |-> << >>,
               ts_result |-> NoResult, response |-> Generated(now.provider),
               reply |-> MessageReply(task_type, provider_used, jlpt_results,
                                      prompt, Generated(now.provider))]
     ELSE [attempts |-> <<Call(now.provider, TRUE)>>, ts_attempts |-> << >>,
           ts_result |-> NoResult, response |-> NoResponse,
           reply |-> ErrorReply] :
     ok \in LLMGenerateOutcomes(now.llm)}

\* process_message line 98: the calls of japanese_processor.analyze_text
AnalyzeCalls(message) == <<message>>

\* The ways process_message lines 91-164 can go; analysis_ok tells whether
\* analyze_text returns.  An exception of analyze_text, or of the response
\* call of the chat path, ends in the error dict of lines 157-164.
MessageRuns(now, message, analysis_ok, retrieval) ==
    LET task_type == MessageFacts[message].task_type
        jlpt_results == JlptResults(message, retrieval)
    IN  IF ~analysis_ok \/ (Queried(message) /\ RetrievalBlocks(retrieval))
        THEN {[attempts |-> << >>, ts_attempts |-> << >>, ts_result |-> NoResult,
               response |-> NoResponse, reply |-> ErrorReply]}
        ELSE IF UseOrchestrator(task_type, TRUE) /\ task_type = "TRANSLATION"
        THEN MessageTranslationRuns(now, message, jlpt_results)
        ELSE IF UseOrchestrator(task_type, TRUE)
        THEN MessageOrchestratedRuns(now, task_type, message, jlpt_results)
        ELSE MessageChatRuns(now, task_type, message, jlpt_results)

\* AIAgent.process_message
ProcessMessage(message, user_id, env, raising, registering, analysis_ok, retrieval) ==
    /\ last = Idle
    /\ LET now == InitializedAgent(env, raising, registering) IN
         /\ models' = now.models
         /\ ts_providers' = now.ts_providers
         /\ llm_instance' = now.llm
         /\ current_provider' = now.provider
         /\ \E run \in MessageRuns(now, message, analysis_ok, retrieval) :
              /\ attempts' = run.attempts
              /\ ts_attempts' = run.ts_attempts
              /\ ts_result' = run.ts_result
              /\ response' = run.response
              /\ reply' = run.reply
              /\ conversation_history' =
                    IF ReachesStore(user_id, run)
                    THEN StoreConversation(conversation_history,
                             Conversation(user_id, message, run.response))
                    ELSE conversation_history
              /\ last' = [op |-> "process_message", message |-> message,
                          user_id |-> user_id,
                          initialized |-> agent_initialized,
                          analyzed |-> AnalyzeCalls(message),
                          analysis |-> IF analysis_ok THEN "returned" ELSE "raised",
                          retrieval |-> IF analysis_ok
                                        THEN RetrievalSeen(message, retrieval)
                                        ELSE "not_queried"]
    /\ orch_initialized' = TRUE
    /\ ts_initialized' = TRUE
    /\ agent_initialized' = TRUE
    /\ UNCHANGED <<task_preferences, jlpt_rag_available, requests, stored,
                   rag_vars>>

\* The texts handed to AIAgent.translate_text
AgentTexts == {TextHello, TextKonnichiwa}

\* The arguments _handle_translation_task takes from the content that
\* translate_text builds (evaluated once)
TranslateTextRequest ==
    [text \in AgentTexts, target_language \in TargetLanguages |->
        LET content == TranslateTextContent(text, target_language) IN
        [text |-> TextToTranslate(content), target_lang |-> TargetLang(content)]]

\* AIAgent.translate_text lines 248-254: the calls of
\* llm_service.translate_text, made only when the orchestrator is not
\* initialized
LLMTranslateCalls(orchestrator_initialized, text, target_language) ==
    IF orchestrator_initialized THEN << >>
    ELSE <<[text |-> text, target_language |-> target_language]>>

\* AIAgent.translate_text lines 244-257: after initialize() the orchestrator
\* is initialized, so the content goes to process_task with no context; the
\* branch of line 254 asks the agent's llm_service, and an exception of it
\* is answered with the "Translation failed" text of line 257
TranslateText(text, target_language, env, raising, registering) ==
    /\ last = Idle
    /\ LET now == InitializedAgent(env, raising, registering)
           request == TranslateTextRequest[text, target_language]
           actual == DetectLanguage(request.text)
           llm_calls == LLMTranslateCalls(TRUE, text, target_language)
       IN  /\ models' = now.models
           /\ ts_providers' = now.ts_providers
           /\ llm_instance' = now.llm
           /\ current_provider' = now.provider
           /\ last' = [op |-> "translate_text", text |-> text,
                       target_language |-> target_language,
                       initialized |-> agent_initialized,
                       llm_translate_calls |-> llm_calls]
           /\ IF llm_calls = << >>
              THEN \E ok \in TranslateOutcomes(ProviderPreferences(<<actual, request.target_lang>>)) :
                     LET done == TranslateWith(request.text, request.target_lang,
                                               SourceLang(FALSE), "None",
                                               now.ts_providers, TRUE, ok)
                     IN  /\ ts_attempts' = done.attempts
                         /\ ts_result' = done.result
                         /\ response' = FormatTranslation(done.result, request.text)
                         /\ reply' = [kind |-> "translation",
                                      text |-> request.text,
                                      target_lang |-> request.target_lang]
              ELSE \E ok \in LLMGenerateOutcomes(now.llm) :
                     /\ ts_attempts' = << >>
                     /\ ts_result' = NoResult
                     /\ response' = IF ok THEN Generated(now.provider) ELSE NoResponse
                     /\ reply' = [kind |-> "translation", text |-> text,
                                  target_lang |-> target_language]
    /\ attempts' = << >>
    /\ orch_initialized' = TRUE
    /\ ts_initialized' = TRUE
    /\ agent_initialized' = TRUE
    /\ UNCHANGED <<task_preferences, jlpt_rag_available, conversation_history,
                   requests, stored, rag_vars>>

\* The retrieval subsystem was imported (JLPT_RAG_AVAILABLE, lines 20-25) or
\* was not
InitAgentSpec ==
    /\ InitOrchestrator
    /\ InitAgent
    /\ jlpt_rag_available \in BOOLEAN

NextAgent ==
    \/ \E provider \in AgentProviders, env \in InitEnvironments :
         \E llm_ok \in LLMInitializeOutcomes(provider),
            raising \in InitRaising(env), registering \in InitRegistering :
           AgentInitialize(provider, llm_ok, env, raising, registering)
    \/ \E provider \in AgentProviders :
         \E llm_ok \in LLMInitializeOutcomes(provider) :
           SetProvider(provider, llm_ok)
    \/ \E message \in AgentMessages, user_id \in UserIds, env \in InitEnvironments :
         \E raising \in InitRaising(env), registering \in InitRegistering,
            analysis_ok \in BOOLEAN, retrieval \in Retrievals(message) :
           ProcessMessage(message, user_id, env, raising, registering,
                          analysis_ok, retrieval)
    \/ \E text \in AgentTexts, target_language \in TargetLanguages,
          env \in InitEnvironments :
         \E raising \in InitRaising(env), registering \in InitRegistering :
           TranslateText(text, target_language, env, raising, registering)
    \/ Return

SpecAgent == InitAgentSpec /\ [][NextAgent]_vars

\* The number of stores made on one log: enough for the log to be cut twice
MaxStores == 1510

\* The serial number of the next store: records carry the number of the
\* store that inserted them as their user_message and ai_response
NextSerial(history) ==
    IF history = << >> THEN 1 ELSE history[Len(history)].user_message + 1

\* The users whose conversations are stored
LogUsers == {"u1"}

\* AIAgent._store_conversation(user_id, user_message, ai_response)
Store(user_id) ==
    LET serial == NextSerial(conversation_history) IN
    /\ serial <= MaxStores
    /\ conversation_history' =
          StoreConversation(conversation_history,
                            Conversation(user_id, serial, serial))
    /\ last' = [op |-> "_store_conversation", serial |-> serial,
                before |-> Len(conversation_history)]
    /\ UNCHANGED <<models, orch_initialized, task_preferences, ts_providers,
                   ts_initialized, attempts, ts_attempts, ts_result, response,
                   agent_initialized, current_provider, llm_instance,
                   jlpt_rag_available, reply, requests, stored, rag_vars>>

NextLog == \E user_id \in LogUsers : Store(user_id)

SpecLog == Init /\ [][NextLog]_vars

\* A log of n records stored one after the other for another user "u0",
\* numbered in the order of their stores (n <= HistoryCap: none evicted)
StoredLog(n) == [i \in 1..n |-> Conversation("u0", i, i)]

\* The record request r stores: the request is its message and its answer
RequestRecord(r, user_id) == Conversation(user_id, r, r)

\* The user_id arguments of concurrent requests
RequestUserIds == {"None", "u1"}

\* What the other fields are while requests run: the agent was initialized
\* with the default provider; the coroutines' other effects are left out
RequestsFrame ==
    UNCHANGED <<models, orch_initialized, task_preferences, ts_providers,
                ts_initialized, last, attempts, ts_attempts, ts_result,
                response, agent_initialized, current_provider, llm_instance,
                jlpt_rag_available, reply, rag_vars>>

\* process_message lines 71-98: request r runs up to its first await
\* (japanese_processor.analyze_text), where other coroutines may run
StartRequest(r, user_id) ==
    /\ requests[r].pc = "none"
    /\ requests' = [requests EXCEPT ![r] = [pc |-> "analyzing", user_id |-> user_id]]
    /\ UNCHANGED <<conversation_history, stored>>
    /\ RequestsFrame

\* process_message lines 98-140: request r resumes and runs up to the await
\* of its response (process_task or generate_response)
AwaitResponse(r) ==
    /\ requests[r].pc = "analyzing"
    /\ requests' = [requests EXCEPT ![r].pc = "responding"]
    /\ UNCHANGED <<conversation_history, stored>>
    /\ RequestsFrame

\* CompleteRequest with an await between lines 378 and 381: the append and
\* the cut of _store_conversation are two steps of the coroutine
CompleteRequestInTwoSteps(r, ok) ==
    /\ requests[r].pc \in {"responding", "appended"}
    /\ IF requests[r].pc = "appended"
       THEN /\ conversation_history' =
                  IF Len(conversation_history) > HistoryCap
                  THEN LastN(conversation_history, HistoryKeep)
                  ELSE conversation_history
            /\ requests' = [requests EXCEPT ![r].pc = "done"]
            /\ UNCHANGED stored
       ELSE IF ok /\ requests[r].user_id # "None"
       THEN /\ conversation_history' =
                  Append(conversation_history,
                         RequestRecord(r, requests[r].user_id))
            /\ stored' = Append(stored, r)
            /\ requests' = [requests EXCEPT ![r].pc = "appended"]
       ELSE /\ requests' = [requests EXCEPT ![r].pc = IF ok THEN "done" ELSE "failed"]
            /\ UNCHANGED <<conversation_history, stored>>
    /\ RequestsFrame

\* process_message lines 140-164: request r resumes with its response (ok)
\* or with an exception.  Lines 142-155 have no await: with a user_id the
\* whole of _store_conversation (append, lines 373-378, and cut, lines
\* 381-382) runs before any other coroutine does; an exception ends in the
\* error dict and stores nothing.
CompleteRequest(r, ok) ==
    /\ requests[r].pc = "responding"
    /\ IF ok /\ requests[r].user_id # "None"
       THEN /\ conversation_history' =
                  StoreConversation(conversation_history,
                                    RequestRecord(r, requests[r].user_id))
            /\ stored' = Append(stored, r)
       ELSE UNCHANGED <<conversation_history, stored>>
    /\ requests' = [requests EXCEPT ![r].pc = IF ok THEN "done" ELSE "failed"]
    /\ RequestsFrame

\* An initialized agent whose log holds the records of earlier stores: none,
\* or so many that the next stores make it exceed the cap
InitConcurrent ==
    /\ models = EnsureSimple({})
    /\ orch_initialized = TRUE
    /\ task_preferences = DefaultPreferences
    /\ ts_providers = {"simple"}
    /\ ts_initialized = TRUE
    /\ last = Idle
    /\ attempts = << >>
    /\ ts_attempts = << >>
    /\ ts_result = NoResult
    /\ response = NoResponse
    /\ agent_initialized = TRUE
    /\ current_provider = "simple"
    /\ llm_instance = LLMInitialize(NoInstance, "simple", TRUE)
    /\ jlpt_rag_available = FALSE
    /\ reply = NoReply
    /\ requests = NoRequests
    /\ stored = << >>
    /\ jlpt_rag_instance = NoRagInstance
    /\ rag_callers = NoCallers
    /\ conversation_history \in
          {StoredLog(n) : n \in {0, HistoryCap - 1, HistoryCap}}

NextConcurrent ==
    \/ \E r \in Requests, user_id \in RequestUserIds : StartRequest(r, user_id)
    \/ \E r \in Requests : AwaitResponse(r)
    \/ \E r \in Requests, ok \in BOOLEAN : CompleteRequest(r, ok)

SpecConcurrent == InitConcurrent /\ [][NextConcurrent]_vars

(* translation_service.py: the functions called on their own *)

\* The texts handed to detect_language
DetectTexts == {TextHello, TextKonnichiwa,
    \* no character
    << >>,
    \* no alphabetic character
    <<"1","2","3"," ","!">>,
    \* 3 kana of 10 alphabetic characters: ratio 0.3
    <<"a","b","c","d","e","f","g","u3042","u3044","u3046">>,
    \* 4 kana of 13 alphabetic characters
    <<"a","b","c","d","e","f","g","h","i","u3042","u3044","u3046","u3048">>,
    \* 3 kana of 11 alphabetic characters
    <<"a","b","c","d","e","f","g","h","u3042","u3044","u3046">>,
    \* kanji only
    <<"u65e5","u672c","u8a9e">>,
    \* kana with small tsu and small yo, after a Latin word
    <<"T","o","k","y","o"," ","u3061","u3087","u3063","u3068">>,
    \* katakana with small yu and the long vowel mark
    <<"u30cb","u30e5","u30fc","u30b9">>,
    \* 1 kana of 3 alphabetic characters
    <<"a","b","u3042">>}

\* TranslationService.detect_language
DetectLanguageCall(text) ==
    /\ last = Idle
    /\ last' = [op |-> "detect_language", text |-> text]
    /\ reply' = [kind |-> "language", language |-> DetectLanguage(text)]
    /\ UNCHANGED <<models, orch_initialized, task_preferences, ts_providers,
                   ts_initialized, attempts, ts_attempts, ts_result, response,
                   agent_state>>

\* The texts handed to the dictionary provider
DictionaryTexts == {TextHello, TextKonnichiwa, TextXyz,
    \* the answer of the table to konnichiwa
    <<"H","e","l","l","o">>,
    \* one word of two is in the en-ja table
    <<"h","e","l","l","o"," ","x","y","z">>,
    \* two words, none in a table
    <<"x","y","z"," ","a","b","c">>,
    \* one unknown word between spaces
    <<" "," ","x","y","z"," ">>,
    \* the empty text
    << >>,
    \* arigatou
    <<"u3042","u308a","u304c","u3068","u3046">>,
    \* a phrase of the en-ja table
    <<"g","o","o","d"," ","m","o","r","n","i","n","g">>}

\* The language pairs handed to the dictionary provider: the two pairs that
\* have a table, a pair without table and a source that was not detected
DictionaryPairs ==
    {<<"ja", "en">>, <<"en", "ja">>, <<"en", "fr">>, <<"unknown", "en">>}

\* What the orchestrator and the agent keep while the translation
\* functions are called on their own
DictionaryFrame ==
    UNCHANGED <<models, orch_initialized, task_preferences, ts_providers,
                ts_initialized, attempts, ts_attempts, response, agent_state,
                reply>>

\* SimpleTranslationProvider.translate(text, source_lang, target_lang)
SimpleTranslateCall(text, source_lang, target_lang) ==
    /\ last = Idle
    /\ ts_result' = SimpleTranslate(text, source_lang, target_lang)
    /\ last' = [op |-> "simple.translate", text |-> text,
                source_lang |-> source_lang, target_lang |-> target_lang,
                call |-> 1, previous |-> NoResult]
    /\ DictionaryFrame

\* SimpleTranslationProvider.translate called a second time with the
\* arguments of the call before
SimpleTranslateAgain ==
    /\ last.op = "simple.translate"
    /\ last.call = 1
    /\ ts_result' = SimpleTranslate(last.text, last.source_lang, last.target_lang)
    /\ last' = [last EXCEPT !.call = 2, !.previous = ts_result]
    /\ DictionaryFrame

\* SimpleTranslationProvider.translate called on the translated_text of the
\* call before, with the language pair reversed
SimpleTranslateBack ==
    /\ last.op = "simple.translate"
    /\ last.call = 1
    /\ ts_result' = SimpleTranslate(ts_result.translated_text,
                                    last.target_lang, last.source_lang)
    /\ last' = [op |-> "simple.translate_back", text |-> ts_result.translated_text,
                source_lang |-> last.target_lang, target_lang |-> last.source_lang,
                original |-> last.text, previous |-> ts_result]
    /\ DictionaryFrame

NextDictionary ==
    \/ \E text \in DetectTexts : DetectLanguageCall(text)
    \/ \E text \in DictionaryTexts, lang_pair \in DictionaryPairs :
         SimpleTranslateCall(text, lang_pair[1], lang_pair[2])
    \/ SimpleTranslateAgain
    \/ SimpleTranslateBack
    \/ Return

SpecDictionary == Init /\ [][NextDictionary]_vars

\* _get_recent_history line 356: limit: int = 5
HistoryLimit == 5

\* RecentHistory without the test of the user_id
RecentHistoryOfAll(history, user_id, limit) ==
    IF user_id = "None" THEN << >>
    ELSE LET recent == LastN(history, limit) IN
         [i \in 1..Len(recent) |->
             [role |-> "user", content |-> recent[i].user_message]]

\* AIAgent._get_recent_history(user_id, limit)
RecentHistory(history, user_id, limit) ==
    IF user_id = "None" THEN << >>
    ELSE LET OfUser(conv) == conv.user_id = user_id
             user_conversations == SelectSeq(history, OfUser)
             recent == LastN(user_conversations, limit)
         IN  [i \in 1..Len(recent) |->
                 [role |-> "user", content |-> recent[i].user_message]]

\* The number of requests with a user_id made on one agent whose history
\* is asked for
MaxTurns == 7

\* The user_id arguments of these requests ("None": no user_id)
HistoryUsers == {"None", "u1", "u2"}

\* The requests that stored a record so far
TurnsMade == Len(stored)

\* What the turns and the history queries leave alone
HistoryFrame ==
    UNCHANGED <<models, orch_initialized, task_preferences, ts_providers,
                ts_initialized, attempts, ts_attempts, ts_result, response,
                agent_initialized, current_provider, llm_instance,
                jlpt_rag_available, requests, rag_vars>>

\* process_message lines 142-144 of a request that got its response: the
\* conversation is stored when a user_id was given.  The message and the
\* response are the number of the store.
RecordTurn(user_id) ==
    LET turn == TurnsMade + 1 IN
    /\ turn <= MaxTurns
    /\ conversation_history' =
          IF user_id # "None"
          THEN StoreConversation(conversation_history,
                                 Conversation(user_id, turn, turn))
          ELSE conversation_history
    /\ stored' = IF user_id # "None" THEN Append(stored, turn) ELSE stored
    /\ last' = [op |-> "process_message", user_id |-> user_id, turn |-> turn,
                before |-> conversation_history]
    /\ reply' = NoReply
    /\ HistoryFrame

\* AIAgent._get_recent_history(user_id)
GetRecentHistory(user_id) ==
    /\ last' = [op |-> "_get_recent_history", user_id |-> user_id]
    /\ reply' = [kind |-> "history",
                 entries |-> RecentHistory(conversation_history, user_id,
                                           HistoryLimit)]
    /\ UNCHANGED <<conversation_history, stored>>
    /\ HistoryFrame

NextHistory ==
    \/ \E user_id \in HistoryUsers : RecordTurn(user_id)
    \/ \E user_id \in HistoryUsers : GetRecentHistory(user_id)

SpecHistory == Init /\ [][NextHistory]_vars

(***************************************************************************)
(* services/jlpt_rag_service.py: get_jlpt_rag and the module-level         *)
(* _jlpt_rag_instance.  JLPTVocabularyRAG.initialize awaits only           *)
(* _download_and_load_data and _build_vector_index, whose bodies are       *)
(* blocking calls without an await of their own, so a call of get_jlpt_rag *)
(* never yields to the event loop: it is one step, and callers follow one  *)
(* another.  constructs and initializes are what the environment decides:  *)
(* whether JLPTVocabularyRAG() and initialize() come back or raise.        *)
(***************************************************************************)
RagFrame ==
    UNCHANGED <<models, orch_initialized, task_preferences, ts_providers,
                ts_initialized, last, attempts, ts_attempts, ts_result,
                response, agent_initialized, current_provider, llm_instance,
                jlpt_rag_available, conversation_history, reply, requests,
                stored>>

\* The instance after `_jlpt_rag_instance = JLPTVocabularyRAG()` and the
\* awaited initialize(): the assignment comes first, so an initialize that
\* raises leaves the instance it was called on in the module variable
Constructed(instance, initializes) ==
    [state |-> IF initializes THEN "ready" ELSE "failed",
     made |-> instance.made + 1]

GetJlptRag(c, constructs, initializes) ==
    /\ rag_callers[c].outcome = "none"
    /\ IF jlpt_rag_instance.state = "None"
       THEN IF constructs
            THEN /\ jlpt_rag_instance' =
                        Constructed(jlpt_rag_instance, initializes)
                 /\ rag_callers' =
                        [rag_callers EXCEPT ![c] =
                            IF initializes
                            THEN [outcome |-> "returned", instance |-> "ready"]
                            ELSE [outcome |-> "raised", instance |-> "None"]]
            ELSE /\ rag_callers' =
                        [rag_callers EXCEPT ![c] =
                            [outcome |-> "raised", instance |-> "None"]]
                 /\ UNCHANGED jlpt_rag_instance
       ELSE /\ rag_callers' =
                   [rag_callers EXCEPT ![c] =
                       [outcome |-> "returned",
                        instance |-> jlpt_rag_instance.state]]
            /\ UNCHANGED jlpt_rag_instance
    /\ RagFrame

NextRag ==
    \E c \in Callers, constructs \in BOOLEAN, initializes \in BOOLEAN :
        GetJlptRag(c, constructs, initializes)

SpecRag == Init /\ [][NextRag]_vars

\* The least member of a non-empty set of numbers
Least(S) == CHOOSE k \in S : \A j \in S : k <= j

\* C17: classify returns the category of the first rule that matches, in
\* the order vocabulary keyword with search verb, translation keyword,
\* grammar keyword, analysis keyword, creative keyword, fewer than 50
\* characters with a question mark, and chat when none matches; keywords
\* are substrings of the lowercased message; a message of 50 characters or
\* more without keyword is chat, and so is an empty or blank message
C17_FirstMatchingRule ==
    last.op = "_classify_task" =>
        LET message == last.message
            lower == Lower(message)
            rules == << AnyIn(VocabularyKeywords, lower) /\ AnyIn(SearchVerbs, lower),
                        AnyIn(TranslationKeywords, lower),
                        AnyIn(GrammarKeywords, lower),
                        AnyIn(AnalysisKeywords, lower),
                        AnyIn(CreativeKeywords, lower),
                        Len(message) < 50 /\ \E i \in 1..Len(message) : message[i] = "?" >>
            category == <<"TEXT_ANALYSIS", "TRANSLATION", "GRAMMAR_ANALYSIS",
                          "TEXT_ANALYSIS", "CREATIVE_WRITING", "QUICK_RESPONSE">>
            matching == {k \in 1..6 : rules[k]}
        IN  /\ reply.task_type =
                 IF matching = {} THEN "CHAT" ELSE category[Least(matching)]
            /\ (Len(message) >= 50 /\ \A k \in 1..5 : ~rules[k]) =>
                 reply.task_type = "CHAT"
            /\ (\A i \in 1..Len(message) : message[i] = " ") =>
                 reply.task_type = "CHAT"

\* C17 witness: a message with a vocabulary keyword, a search verb, a
\* translation keyword and a question mark is a text analysis
C17_Witness ==
    /\ last.op = "_classify_task"
    /\ AnyIn(VocabularyKeywords, Lower(last.message))
    /\ AnyIn(SearchVerbs, Lower(last.message))
    /\ AnyIn(TranslationKeywords, Lower(last.message))
    /\ Contains(last.message, <<"?">>)
    /\ reply.task_type = "TEXT_ANALYSIS"

\* C20 as stated: the stop words are removed from the tokens of the
\* message; the query is the first two remaining tokens that hold a
\* character outside ASCII when there is one, else the first three remaining
\* tokens
C20_Original ==
    last.op = "_extract_search_terms" =>
        LET NotStopWord(word) == Lower(word) \notin StopWords
            remaining == SelectSeq(SplitWords(last.message), NotStopWord)
            japanese == SelectSeq(remaining, HasNonAscii)
        IN  reply.terms = IF japanese # << >> THEN JoinWords(FirstN(japanese, 2))
                          ELSE JoinWords(FirstN(remaining, 3))

\* C20 amended: the stop words and every token of one character are removed;
\* the query is the first two remaining tokens that hold a character outside
\* ASCII when there is one, else the first three remaining tokens; a lone
\* remaining Japanese word is the query; no token of one character is in
\* the query
C20_QueryExtraction ==
    last.op = "_extract_search_terms" =>
        LET Kept(word) == Lower(word) \notin StopWords /\ Len(word) >= 2
            remaining == SelectSeq(SplitWords(last.message), Kept)
            japanese == SelectSeq(remaining, HasNonAscii)
        IN  /\ reply.terms = IF japanese # << >> THEN JoinWords(FirstN(japanese, 2))
                             ELSE JoinWords(FirstN(remaining, 3))
            /\ (Len(remaining) = 1 /\ japanese # << >>) => reply.terms = remaining[1]
            /\ \A word \in Range(SplitWords(reply.terms)) : Len(word) >= 2

\* C20 witness: three Japanese words of two characters or more and a token
\* of one character between them; the query is the first two words
C20_Witness ==
    /\ last.op = "_extract_search_terms"
    /\ \E word \in Range(SplitWords(last.message)) : Len(word) = 1
    /\ Len(SelectSeq(SplitWords(last.message), HasNonAscii)) = 3
    /\ Len(SplitWords(reply.terms)) = 2
    /\ \A word \in Range(SplitWords(reply.terms)) : HasNonAscii(word)

\* C18: when the lowercased content holds "translate", the text handed to
\* the translation service is what follows that keyword in the content,
\* stripped of blanks and of a known prefix phrase, or the whole content
\* when nothing is left
C18_TextAfterKeyword ==
    (last.op = "_handle_translation_task"
        /\ Contains(Lower(last.content), StrTranslate)) =>
        LET at == Find(Lower(last.content), StrTranslate)
            after == Strip(From(last.content, at + Len(StrTranslate)))
            stripped == RemovePrefix(after, reply.target_lang)
        IN  reply.text = IF stripped # << >> THEN stripped ELSE last.content


\* C15: whatever the task category, a process_message whose retrieval
\* returned results hands the generating provider the augmented prompt with
\* the first (at most 3) results in retrieval order, and the unmodified
\* message when there are no results.
C15_AugmentedPrompt ==
    (last # Idle /\ last.op = "process_message" /\ reply.kind = "result") =>
        LET n == Len(reply.jlpt_results)
            top == IF n < 3 THEN n ELSE 3
        IN  IF n > 0
            THEN /\ reply.prompt.kind = "enhanced"
                 /\ reply.prompt.message = last.message
                 /\ reply.prompt.results = [i \in 1..top |-> reply.jlpt_results[i]]
            ELSE reply.prompt = [kind |-> "message", message |-> last.message,
                                 results |-> << >>]

\* C16: when the retrieval query raises, or the retrieval subsystem is not
\* available, process_message goes on with an empty result list: no result
\* reaches the reply or the prompt, and the request ends in the error dict
\* only if analyze_text or the response call of the chat path itself raised.
C16_RetrievalFailureIsEmpty ==
    (last # Idle /\ last.op = "process_message"
        /\ (last.retrieval = "raised" \/ ~jlpt_rag_available)) =>
        IF reply.kind = "result"
        THEN /\ reply.jlpt_results = << >>
             /\ reply.prompt.kind = "message"
             /\ reply.prompt.message = last.message
        ELSE /\ reply.kind = "error"
             /\ \/ last.analysis = "raised"
                \/ attempts # << >> /\ attempts[Len(attempts)].raised

\* C16: a query that raised, and the response was produced all the same
C16_Witness ==
    /\ last # Idle
    /\ last.op = "process_message"
    /\ last.retrieval = "raised"
    /\ reply.kind = "result"
    /\ reply.jlpt_results = << >>
    /\ response # NoResponse

\* C19: AIAgent.translate_text(text, target_language) makes a translation
\* request whose target language is target_language: "ja" when Japanese was
\* asked for, "en" otherwise.
C19_TargetLanguageHanded ==
    (last # Idle /\ last.op = "translate_text") =>
        /\ reply.target_lang = last.target_language
        /\ ts_result.target_language = last.target_language

\* C13: the log never holds more than 1000 records; the store that finds
\* 1000 records (the 1001st store is the first) leaves exactly 500, the 500
\* most recently inserted in the order of their insertion; every other
\* store adds its record at the end and removes nothing.
C13_LogCappedAtThousand ==
    LET log == conversation_history IN
    /\ Len(log) <= 1000
    /\ (last.op = "_store_conversation") =>
          /\ (last.serial = 1001) => (last.before = 1000)
          /\ IF last.before = 1000
             THEN /\ Len(log) = 500
                  /\ \A i \in 1..500 :
                        log[i].user_message = last.serial - 500 + i
             ELSE /\ Len(log) = last.before + 1
                  /\ \A i \in 1..Len(log) :
                        log[i].user_message = last.serial - Len(log) + i

\* C13: the 1001st store has cut the log to the records 502..1001
C13_Witness ==
    /\ last.op = "_store_conversation"
    /\ last.serial = 1001
    /\ Len(conversation_history) = 500
    /\ conversation_history[1].user_message = 502
    /\ conversation_history[500].user_message = 1001

\* One whole store on a log: the record is added at the end, and a log of
\* more than 1000 records keeps its last 500
WholeStore(log, c) ==
    IF Len(log) + 1 > 1000
    THEN [i \in 1..500 |-> Append(log, c)[Len(log) + 1 - 500 + i]]
    ELSE Append(log, c)

\* The step of exactly one request that completes with a user_id and stores
\* its record once, by one whole store
OneWholeStore ==
    \E r \in Requests :
        /\ requests[r].pc = "responding"
        /\ requests'[r].pc = "done"
        /\ requests[r].user_id # "None"
        /\ \A q \in Requests \ {r} : requests'[q] = requests[q]
        /\ stored' = Append(stored, r)
        /\ conversation_history' =
              WholeStore(conversation_history,
                         [user_id |-> requests[r].user_id,
                          user_message |-> r, ai_response |-> r])

\* Each completed request with a user_id has exactly one record, no other
\* request has any, and the requests' records lie at the end of the log in
\* the order of their stores
RecordsInStoreOrder ==
    /\ Len(stored) <= Len(conversation_history)
    /\ \A r \in Requests :
          Cardinality({i \in 1..Len(stored) : stored[i] = r}) =
              IF requests[r].pc = "done" /\ requests[r].user_id # "None"
              THEN 1 ELSE 0
    /\ \A i \in 1..Len(conversation_history) :
          LET k == i - (Len(conversation_history) - Len(stored)) IN
          IF k >= 1
          THEN conversation_history[i] =
                  [user_id |-> requests[stored[k]].user_id,
                   user_message |-> stored[k], ai_response |-> stored[k]]
          ELSE conversation_history[i].user_id = "u0"

\* C14: with several process_message requests in flight on one agent, the
\* append and the cut of one store are never separated by a step of
\* another request.  Every step that changes the log is the store of exactly
\* one request that completes with a user_id: it adds that request's record
\* once and leaves the log as one whole store does.  Each completed request
\* with a user_id has exactly one record, no other request has any, and the
\* requests' records lie at the end of the log in the order of their stores.
C14_StoresAreAtomic ==
    /\ []RecordsInStoreOrder
    /\ [][(conversation_history' # conversation_history \/ stored' # stored)
             => OneWholeStore]_vars

\* C14: two requests have stored while a third is in flight, and the log was
\* cut by one of the stores
C14_Witness ==
    /\ Len(stored) = 2
    /\ \E r \in Requests : requests[r].pc \in {"analyzing", "responding"}
    /\ Len(conversation_history) \in {HistoryKeep, HistoryKeep + 1}
    /\ conversation_history[Len(conversation_history)].user_id # "u0"

\* The characters of the Hiragana and Katakana Unicode blocks that occur in
\* DetectTexts (U+3041..U+3096, U+30A1..U+30FA and the long vowel mark U+30FC)
KanaOfTheBlocks ==
    {"u3042", "u3044", "u3046", "u3048", "u3053", "u3093", "u306b", "u3061",
     "u306f", "u3068", "u3087", "u3063", "u30cb", "u30e5", "u30fc", "u30b9"}

\* C21: detect_language answers "unknown" for a text without alphabetic
\* character, "ja" when the Hiragana and Katakana characters are more than
\* 0.3 of the alphabetic characters, and "en" otherwise, a ratio of exactly
\* 0.3 included.
C21_DetectByKanaRatio ==
    (last.op = "detect_language") =>
        LET text == last.text
            kana == Cardinality({i \in 1..Len(text) : text[i] \in KanaOfTheBlocks})
            alphabetic == Cardinality({i \in 1..Len(text) : text[i] \notin NonAlpha})
        IN  reply.language =
                IF alphabetic = 0 THEN "unknown"
                ELSE IF 10 * kana > 3 * alphabetic THEN "ja" ELSE "en"

\* The keys of the dictionary provider's phrase table for a language pair
PhraseKeys(source_lang, target_lang) ==
    IF source_lang = "ja" /\ target_lang = "en"
    THEN {e[1] : e \in TranslationsJaEn}
    ELSE IF source_lang = "en" /\ target_lang = "ja"
    THEN {e[1] : e \in TranslationsEnJa}
    ELSE {}

\* The text of the call has no exact and no per-token match for its pair
IsMiss ==
    LET keys == PhraseKeys(last.source_lang, last.target_lang)
        lowered == Strip(Lower(last.text))
    IN  /\ Strip(last.text) \notin keys
        /\ lowered \notin keys
        /\ \A word \in Range(SplitWords(lowered)) : word \notin keys

C23_GreetingRoundTrip ==
    (/\ last.op = "simple.translate_back"
     /\ last.original = <<"u3053", "u3093", "u306b", "u3061", "u306f">>
     /\ last.target_lang = "ja" /\ last.source_lang = "en") =>
        /\ last.previous.method = "exact_match"
        /\ ts_result.method = "exact_match"
        /\ ts_result.confidence > 0
        /\ ts_result.translated_text \in
              {<<"u3053", "u3093", "u306b", "u3061", "u306f">>,
               <<"u3053", "u3093", "u3070", "u3093", "u306f">>,
               <<"u304a", "u306f", "u3088", "u3046">>}
        /\ ts_result.translated_text[1] # "["

\* C23: konnichiwa went from ja to en and back
C23_Witness ==
    /\ last.op = "simple.translate_back"
    /\ last.original = <<"u3053", "u3093", "u306b", "u3061", "u306f">>
    /\ last.source_lang = "en"
    /\ last.target_lang = "ja"
    /\ last.text = <<"H", "e", "l", "l", "o">>
    /\ ts_result.translated_text = <<"u3053", "u3093", "u306b", "u3061", "u306f">>

\* C24: on an initialized agent, a message classified as chat for which no
\* vocabulary result was found is answered with exactly the text that
\* llm_service.generate_response produced; generate_response is called
\* once and analyze_text once, with the message.
C24_ReturnsGeneratedText ==
    (/\ last.op = "process_message"
     /\ last.initialized
     /\ reply.kind = "result"
     /\ reply.task_type = "chat"
     /\ reply.jlpt_results = << >>) =>
        /\ reply = response
        /\ Len(attempts) = 1
        /\ ~attempts[1].raised
        /\ last.analyzed = <<last.message>>

\* C25: on an agent whose initialize has completed, translate_text(text,
\* target) calls llm_service.translate_text exactly once, with (text,
\* target), and no provider of the translation service.
C25_AsksLLMService ==
    (last.op = "translate_text" /\ last.initialized) =>
        /\ last.llm_translate_calls =
              <<[text |-> last.text, target_language |-> last.target_language]>>
        /\ ts_attempts = << >>

\* C26: _get_recent_history(user_id) returns messages of that user only:
\* the most recent ones, at most 5, in the order in which they were
\* processed, and nothing for a missing user_id; a request made without a
\* user_id stores nothing, a request with one stores its record at the end.
C26_RecentHistoryOfUser ==
    LET log == conversation_history
        mine == {i \in 1..Len(log) : log[i].user_id = last.user_id}
    IN  /\ (last.op = "_get_recent_history") =>
              LET entries == reply.entries IN
              /\ Len(entries) = IF Cardinality(mine) < 5 THEN Cardinality(mine) ELSE 5
              /\ \A k \in 1..Len(entries) :
                    /\ entries[k].role = "user"
                    /\ \E i \in mine :
                          /\ entries[k].content = log[i].user_message
                          /\ Cardinality({j \in mine : j > i}) = Len(entries) - k
        /\ (last.op = "process_message" /\ "turn" \in DOMAIN last) =>
              IF last.user_id = "None"
              THEN log = last.before
              ELSE log = Append(last.before,
                                [user_id |-> last.user_id,
                                 user_message |-> last.turn,
                                 ai_response |-> last.turn])

\* C26: a user with six stored messages, among those of another user, was
\* given the last five
C26_Witness ==
    /\ last.op = "_get_recent_history"
    /\ last.user_id = "u1"
    /\ Cardinality({i \in 1..Len(conversation_history) :
                       conversation_history[i].user_id = "u1"}) = 6
    /\ \E i \in 1..Len(conversation_history) :
          conversation_history[i].user_id = "u2"
    /\ Len(reply.entries) = 5

\* C27: on an initialized agent, a set_provider that fails and returns
\* False leaves the agent as it was: current_provider keeps its value and
\* llm_service keeps the provider instance that answered before,
\* initialized as it was.
C27_FailedSwitchChangesNothing ==
    [][(/\ agent_initialized
        /\ last'.op = "set_provider"
        /\ reply'.kind = "switched"
        /\ ~reply'.ok) =>
           (/\ current_provider' = current_provider
            /\ llm_instance' = llm_instance)]_vars

\* C28: get_jlpt_rag constructs at most one retrieval instance, and the
\* instance it returns to a caller is one whose initialize() completed
\* successfully, also for the callers that come after an initialization
\* that failed
C28_OnlyInitializedInstance ==
    /\ jlpt_rag_instance.made <= 1
    /\ \A c \in Callers :
           rag_callers[c].outcome = "returned" =>
               rag_callers[c].instance = "ready"


\* The calls one TranslationService.translate made while it walked the
\* pair's preference list: all of them but the call of the provider asked
\* for by name
WalkCalls ==
    IF UseRequestedProvider(last.provider, ts_providers)
    THEN Tail(ts_attempts) ELSE ts_attempts

ReachesHandler ==
    /\ last'.op = "process_message"
    /\ \/ last'.analysis = "raised"
       \/ /\ MessageFacts[last'.message].task_type = "CHAT"
          /\ attempts' # << >>
          /\ attempts'[Len(attempts')].raised

\* A step of process_message in which a model of the orchestrator's chain
\* raised: process_task catches it and goes on to the next model
AbsorbedByChain ==
    /\ last'.op = "process_message"
    /\ last'.analysis = "returned"
    /\ MessageFacts[last'.message].task_type # "CHAT"
    /\ \E i \in 1..Len(attempts') : attempts'[i].raised

\* The step answers with the error dict and leaves the conversation log
ErrorDictAndLogKept ==
    /\ reply' = ErrorReply
    /\ reply'.response = Apology
    /\ reply'.task_type = "error"
    /\ conversation_history' = conversation_history

\* The step answers as for a request without failure and stores the
\* exchange of a request that names its user
AnsweredAndStored ==
    /\ reply'.kind = "result"
    /\ reply'.task_type = TaskValue[MessageFacts[last'.message].task_type]
    /\ reply'.response = response'
    /\ conversation_history' =
          IF last'.user_id # "None"
          THEN StoreConversation(conversation_history,
                   Conversation(last'.user_id, last'.message, response'))
          ELSE conversation_history

\* C30: on an initialized agent process_message does not raise; when
\* analyze_text or the direct call of the agent's provider raises, it
\* returns the error dict with the fixed apology and task_type "error" and
\* the conversation log is as it was before the request; a model of the
\* orchestrator's chain that raises is absorbed by the chain, the request
\* is answered with the next model's text or the "no models available"
\* text under its own task_type, and its exchange is stored
C30_ErrorDictOrAbsorbed ==
    [][agent_initialized =>
          /\ ReachesHandler => ErrorDictAndLogKept
          /\ AbsorbedByChain => AnsweredAndStored]_vars

\* The direct call of the provider raised for a request that names its
\* user, and the error dict was returned
C30_Witness ==
    /\ last.op = "process_message"
    /\ last.initialized
    /\ last.user_id = "u1"
    /\ last.analysis = "returned"
    /\ attempts # << >>
    /\ attempts[Len(attempts)].raised
    /\ reply = ErrorReply
    /\ conversation_history = << >>

\* C30 as first stated: an exception in analysis, in the orchestrator's
\* chain or in the direct provider call ends in the error dict with the
\* conversation log unchanged
C30_AnyExceptionIsErrorDict ==
    [][(/\ agent_initialized
        /\ last'.op = "process_message"
        /\ \/ last'.analysis = "raised"
           \/ \E i \in 1..Len(attempts') : attempts'[i].raised) =>
              ErrorDictAndLogKept]_vars

=============================================================================
